---- MODULE Spec2Model ----
(***************************************************************************)
(* Model of the podcast-processing backend's resilience infrastructure:    *)
(*   - the in-memory job tracker      (backend/utils/job_manager.py)       *)
(*   - the service circuit breaker    (backend/utils/circuit_breaker.py)   *)
(*   - the Deepgram transcription call                                     *)
(*                              (backend/routes/deepgram_transcription.py) *)
(* Each component has its own specification (SpecJobs, SpecCB,             *)
(* SpecResilient, SpecDeepgram) over the same variables; the variables of  *)
(* the other components stay at their initial values.                      *)
(***************************************************************************)
EXTENDS Integers, Sequences, FiniteSets, TLC

VARIABLES
    now,            \* time.time(), in seconds
    jobs,           \* JobManager.jobs: job_id -> JobInfo
    user_jobs,      \* JobManager.user_jobs: user_id -> list of job_ids
    used_ids,       \* job ids handed out so far (uuid4 values never repeat)
    ops,            \* number of tracker operations called so far
    ret,            \* the last tracker call: operation, job, caller and returned value (as text)
    service,        \* the service name given to resilient_call ("" when the breaker is used directly)
    cb,             \* the ServiceCircuitBreaker instance: its fields
    pc,             \* per caller: idle, running (inside call), awaiting (inside call_async)
    found,          \* per caller in a call: the breaker state it found on entry
    attempt,        \* per caller: attempt number of the tenacity retry loop (0 outside resilient_call)
    consec,         \* failures of the wrapped operation recorded since the last recorded success
    cb_ret,         \* outcome of the last breaker step: result and whether the operation was invoked
    dg_pc,          \* transcribe_with_deepgram_api: idle, loop (in the retry loop), done
    dg_attempt,     \* the loop variable attempt
    dg_history,     \* what each client.post so far produced
    dg_result,      \* what the call returned or raised
    rl_kind,        \* AdvancedRateLimiter.redis_client: a redis client, the mock client, or None
    rl_up,          \* whether the redis server answers at the moment
    rl_tier,        \* the user_tier the calls are made with
    rl_store,       \* the redis keys of the limiter: key -> value and expiry time
    rl_pc,          \* per caller of check_rate_limit: idle, get (reading a counter), execute
    rl_loc,         \* per caller: the arguments and locals of its check_rate_limit call
    rl_ret,         \* the dict the last check_rate_limit call returned
    rl_admitted,    \* per counter key: the weight admitted on it by calls whose store worked
    rl_ticks,       \* number of clock observations of the limiter so far
    rl_calls,       \* number of check_rate_limit calls made so far
    pq_store,       \* the redis lists priority_queue:{p}: priority -> list of request ids (head first)
    pq_data,        \* the redis hashes request_data:{id}: request id -> stored request
    pq_ms,          \* int(time.time() * 1000)
    pq_ticks,       \* number of clock observations of the queue so far
    pq_ret,         \* what the last queue operation returned
    wf_pc,          \* process_complete_podcast_workflow: position in the handler
    wf_req,         \* the file and user_id of the request
    wf_steps,       \* the WorkflowStep flags
    wf_info,        \* the result containers storage_info, transcription_info, seo_info, firestore_info
    wf_attempted,   \* the stages called so far, in call order
    wf_out,         \* what the handler returned or raised
    wf_tmp,         \* the temporary files of the handler that are on disk
    bg_pc,          \* quick_upload_and_process / process_workflow_background: position
    bg_calls,       \* the external calls the background run made so far, in call order
    bg_out,         \* what quick_upload_and_process returned
    bg_log,         \* how the background run ended, as its last log line tells
    bg_tmp,         \* the temporary files of background runs that are on disk, oldest first
    bg_ids,         \* the upload ids returned to accepted submissions, in order
    ex_in,          \* the vendor response given to extract_words_with_speakers
    ex_out,         \* what extract_words_with_speakers returned or raised
    cm_data,        \* the _data dict of the cache backend: cache key -> serialized value
    cm_pc,          \* per caller of cached_operation: idle, hit, miss, computed, raised
    cm_ctx,         \* per caller: key, cache type, what the context manager yielded, context.result
    cm_computed,    \* per cache key: number of results computed and written for it
    cm_calls        \* number of cached_operation calls so far

jobVars == <<jobs, user_jobs, used_ids, ops, ret>>
cbVars == <<service, cb, pc, found, attempt, consec, cb_ret>>
dgVars == <<dg_pc, dg_attempt, dg_history, dg_result>>
rlVars == <<rl_kind, rl_up, rl_tier, rl_store, rl_pc, rl_loc, rl_ret, rl_admitted,
           rl_ticks, rl_calls>>
pqVars == <<pq_store, pq_data, pq_ms, pq_ticks, pq_ret>>
wfVars == <<wf_pc, wf_req, wf_steps, wf_info, wf_attempted, wf_out, wf_tmp>>
bgVars == <<bg_pc, bg_calls, bg_out, bg_log, bg_tmp, bg_ids>>
exVars == <<ex_in, ex_out>>
cmVars == <<cm_data, cm_pc, cm_ctx, cm_computed, cm_calls>>
lateVars == <<exVars, cmVars>>
newVars == <<rlVars, pqVars, wfVars, bgVars, lateVars>>
vars == <<now, jobs, user_jobs, used_ids, ops, ret,
          service, cb, pc, found, attempt, consec, cb_ret,
          dg_pc, dg_attempt, dg_history, dg_result,
          rl_kind, rl_up, rl_tier, rl_store, rl_pc, rl_loc, rl_ret, rl_admitted,
          rl_ticks, rl_calls,
          pq_store, pq_data, pq_ms, pq_ticks, pq_ret,
          wf_pc, wf_req, wf_steps, wf_info, wf_attempted, wf_out, wf_tmp,
          bg_pc, bg_calls, bg_out, bg_log, bg_tmp, bg_ids,
          ex_in, ex_out,
          cm_data, cm_pc, cm_ctx, cm_computed, cm_calls>>

(***************************************************************************)
(* Optional values: None is the empty tuple, a present value v is <<v>>.   *)
(***************************************************************************)
None == <<>>
Some(v) == <<v>>
\* Python truthiness of an Optional[str] / Optional[dict] argument:
\* None, "" and {} are falsy.
Truthy(x) == x # None /\ x # Some("") /\ x # Some("{}")

(***************************************************************************)
(* Bounds                                                                  *)
(***************************************************************************)
MaxTicks == 1       \* job tracker: hours that pass in one behaviour
MaxOps == 3         \* job tracker: operations called in one behaviour
TickSeconds == 20   \* circuit breaker: seconds between two observations of the clock
MaxElapsed == 80    \* circuit breaker: seconds that pass in one behaviour
StartTime == 1000   \* time.time() at process start (never 0)

(***************************************************************************)
(*                              JOB TRACKER                                *)
(***************************************************************************)
QUEUED == "queued"
PROCESSING == "processing"
COMPLETED == "completed"
FAILED == "failed"
CANCELLED == "cancelled"
JobStatus == {QUEUED, PROCESSING, COMPLETED, FAILED, CANCELLED}

UPLOADING == "uploading"
DOWNLOADING == "downloading"
TRANSCRIBING == "transcribing"
GENERATING_SEO == "generating_seo"
SAVING == "saving"
STEP_COMPLETED == "completed"
JobStep == {UPLOADING, DOWNLOADING, TRANSCRIBING, GENERATING_SEO, SAVING, STEP_COMPLETED}

TerminalStatus == {COMPLETED, FAILED, CANCELLED}

JobIds == {"j1", "j2"}
Users == {"alice", "bob"}
SecondsPerHour == 3600

\* Arguments the callers pass
\* update_job_status(job_id, status, <<current_step, progress, error_message, result_data>>)
UpdateArgs == { <<None, None, None, None>>,
                <<Some(TRANSCRIBING), Some(50), None, None>>,
                <<None, None, Some("boom"), None>>,
                <<Some(STEP_COMPLETED), None, None, Some("doc")>> }
ProgressSteps == {TRANSCRIBING, SAVING}
ErrorArgs == {None, Some(""), Some("boom")}
ResultArgs == {None, Some("{}"), Some("doc")}
MaxAgeArgs == {0, 1, 24}

Bool(b) == IF b THEN "True" ELSE "False"
Returned(op, job_id, user_id, value) ==
    [op |-> op, job_id |-> job_id, user_id |-> user_id, value |-> value]
\* one more tracker operation is called
Called == ops < MaxOps /\ ops' = ops + 1

JobInfo(job_id, user_id, filename, t) ==
    [ job_id        |-> job_id,
      user_id       |-> user_id,
      workspace_id  |-> None,
      filename      |-> filename,
      upload_id     |-> None,
      status        |-> QUEUED,
      current_step  |-> UPLOADING,
      progress      |-> 0,
      created_at    |-> t,
      updated_at    |-> t,
      started_at    |-> None,
      completed_at  |-> None,
      error_message |-> None,
      result_data   |-> None ]

\* list.remove(x): drops the first occurrence of x
RECURSIVE ListRemove(_, _)
ListRemove(s, x) ==
    IF s = <<>> THEN <<>>
    ELSE IF Head(s) = x THEN Tail(s)
    ELSE <<Head(s)>> \o ListRemove(Tail(s), x)

\* the removals of cleanup_old_jobs, one job at a time
RECURSIVE RemoveAll(_, _)
RemoveAll(s, gone) ==
    IF gone = {} THEN s
    ELSE LET x == CHOOSE y \in gone : TRUE
         IN  RemoveAll(ListRemove(s, x), gone \ {x})

create_job(user_id, job_id) ==
    /\ job_id \notin used_ids
    /\ jobs' = [x \in DOMAIN jobs \cup {job_id} |->
                  IF x = job_id THEN JobInfo(job_id, user_id, "ep.mp3", now)
                  ELSE jobs[x]]
    /\ user_jobs' = [user_jobs EXCEPT ![user_id] = Append(@, job_id)]
    /\ used_ids' = used_ids \cup {job_id}
    /\ ret' = Returned("create_job", job_id, user_id, job_id)
    /\ Called
    /\ UNCHANGED now /\ UNCHANGED <<cbVars, dgVars>> /\ UNCHANGED newVars

\* the body of update_job_status for a job that exists: the new JobInfo
UpdatedJob(job, status, current_step, progress, error_message, result_data, t) ==
    LET j1 == [job EXCEPT !.status = status, !.updated_at = t]
        j2 == IF current_step # None THEN [j1 EXCEPT !.current_step = current_step[1]] ELSE j1
        j3 == IF progress # None THEN [j2 EXCEPT !.progress = progress[1]] ELSE j2
        j4 == IF Truthy(error_message) THEN [j3 EXCEPT !.error_message = error_message] ELSE j3
        j5 == IF Truthy(result_data) THEN [j4 EXCEPT !.result_data = result_data] ELSE j4
    IN  IF status = PROCESSING /\ j5.started_at = None
          THEN [j5 EXCEPT !.started_at = Some(t)]
        ELSE IF status \in TerminalStatus
          THEN [j5 EXCEPT !.completed_at = Some(t)]
        ELSE j5

\* update_job_status as a function of the registry: <<new registry, return value>>
UpdateStatus(js, job_id, status, current_step, progress, error_message, result_data, t) ==
    IF job_id \notin DOMAIN js
      THEN <<js, FALSE>>
      ELSE <<[js EXCEPT ![job_id] =
                 UpdatedJob(js[job_id], status, current_step, progress,
                            error_message, result_data, t)], TRUE>>

update_job_status(job_id, status, current_step, progress, error_message, result_data) ==
    LET r == UpdateStatus(jobs, job_id, status, current_step, progress,
                          error_message, result_data, now)
    IN  /\ jobs' = r[1]
        /\ ret' = Returned("update_job_status", job_id, "", Bool(r[2]))
        /\ Called
        /\ UNCHANGED <<user_jobs, used_ids, now>> /\ UNCHANGED <<cbVars, dgVars>> /\ UNCHANGED newVars

update_job_progress(job_id, current_step, progress) ==
    LET r == UpdateStatus(jobs, job_id, PROCESSING, Some(current_step), Some(progress),
                          None, None, now)
    IN  /\ jobs' = r[1]
        /\ ret' = Returned("update_job_progress", job_id, "", Bool(r[2]))
        /\ Called
        /\ UNCHANGED <<user_jobs, used_ids, now>> /\ UNCHANGED <<cbVars, dgVars>> /\ UNCHANGED newVars

\* cancel_job without the ownership test
cancel_job_AnyUser(job_id, user_id) ==
    /\ IF job_id \notin DOMAIN jobs
         THEN jobs' = jobs /\ ret' = Returned("cancel_job", job_id, user_id, Bool(FALSE))
       ELSE IF jobs[job_id].status \in TerminalStatus
         THEN jobs' = jobs /\ ret' = Returned("cancel_job", job_id, user_id, Bool(FALSE))
       ELSE /\ jobs' = UpdateStatus(jobs, job_id, CANCELLED, None, None, None, None, now)[1]
            /\ ret' = Returned("cancel_job", job_id, user_id, Bool(TRUE))
    /\ Called
    /\ UNCHANGED <<user_jobs, used_ids, now>> /\ UNCHANGED <<cbVars, dgVars>> /\ UNCHANGED newVars

cancel_job(job_id, user_id) ==
    /\ IF job_id \notin DOMAIN jobs
         THEN jobs' = jobs /\ ret' = Returned("cancel_job", job_id, user_id, Bool(FALSE))
       ELSE IF jobs[job_id].user_id # user_id
         THEN jobs' = jobs /\ ret' = Returned("cancel_job", job_id, user_id, Bool(FALSE))
       ELSE IF jobs[job_id].status \in TerminalStatus
         THEN jobs' = jobs /\ ret' = Returned("cancel_job", job_id, user_id, Bool(FALSE))
       ELSE /\ jobs' = UpdateStatus(jobs, job_id, CANCELLED, None, None, None, None, now)[1]
            /\ ret' = Returned("cancel_job", job_id, user_id, Bool(TRUE))
    /\ Called
    /\ UNCHANGED <<user_jobs, used_ids, now>> /\ UNCHANGED <<cbVars, dgVars>> /\ UNCHANGED newVars

complete_job(job_id, result_data) ==
    LET r == UpdateStatus(jobs, job_id, COMPLETED, Some(STEP_COMPLETED), Some(100),
                          None, result_data, now)
    IN  /\ jobs' = r[1]
        /\ ret' = Returned("complete_job", job_id, "", Bool(r[2]))
        /\ Called
        /\ UNCHANGED <<user_jobs, used_ids, now>> /\ UNCHANGED <<cbVars, dgVars>> /\ UNCHANGED newVars

fail_job(job_id, error_message) ==
    LET r == UpdateStatus(jobs, job_id, FAILED, None, None, error_message, None, now)
    IN  /\ jobs' = r[1]
        /\ ret' = Returned("fail_job", job_id, "", Bool(r[2]))
        /\ Called
        /\ UNCHANGED <<user_jobs, used_ids, now>> /\ UNCHANGED <<cbVars, dgVars>> /\ UNCHANGED newVars

\* jobs created strictly before the cutoff
JobsToRemove_Inclusive(max_age_hours) ==
    {j \in DOMAIN jobs : jobs[j].created_at <= now - max_age_hours * SecondsPerHour}
JobsToRemove(max_age_hours) ==
    {j \in DOMAIN jobs : jobs[j].created_at < now - max_age_hours * SecondsPerHour}

cleanup_old_jobs(max_age_hours) ==
    LET gone == JobsToRemove(max_age_hours)
    IN  /\ jobs' = [x \in DOMAIN jobs \ gone |-> jobs[x]]
        /\ user_jobs' = [u \in Users |->
                           RemoveAll(user_jobs[u], {j \in gone : jobs[j].user_id = u})]
        /\ ret' = Returned("cleanup_old_jobs", "", "", ToString(Cardinality(gone)))
        /\ Called
        /\ UNCHANGED <<used_ids, now>> /\ UNCHANGED <<cbVars, dgVars>> /\ UNCHANGED newVars

\* the clock advances by an hour
TickHour ==
    /\ now < StartTime + MaxTicks * SecondsPerHour
    /\ now' = now + SecondsPerHour
    /\ UNCHANGED jobVars /\ UNCHANGED <<cbVars, dgVars>> /\ UNCHANGED newVars

(***************************************************************************)
(*                            CIRCUIT BREAKER                              *)
(***************************************************************************)
CLOSED == "closed"
OPEN == "open"
HALF_OPEN == "half_open"
CircuitState == {CLOSED, OPEN, HALF_OPEN}

\* Exception classes the wrapped operation can raise.  HTTPError stands for
\* httpx.HTTPError and its subclasses, ValueError for any exception outside
\* the three network classes, RetryError for tenacity.RetryError.
ExceptionKinds == {"HTTPError", "ConnectionError", "TimeoutError", "ValueError"}
FuncResults == {"ok"} \cup ExceptionKinds
NetworkErrors == {"HTTPError", "ConnectionError", "TimeoutError"}
AnyException == {"Exception"}

\* isinstance(e, types)
IsInstance(e, types) == e \in types \/ "Exception" \in types

ServiceCircuitBreaker(failure_threshold, recovery_timeout, expected_exception) ==
    [ failure_threshold  |-> failure_threshold,
      recovery_timeout   |-> recovery_timeout,
      expected_exception |-> expected_exception,
      failure_count      |-> 0,
      last_failure_time  |-> None,
      state              |-> CLOSED ]

deepgram_circuit == ServiceCircuitBreaker(3, 30, NetworkErrors)
gemini_circuit == ServiceCircuitBreaker(3, 30, NetworkErrors)
firebase_circuit == ServiceCircuitBreaker(5, 60, AnyException)
default_circuit == ServiceCircuitBreaker(5, 60, AnyException)

should_attempt_reset(b, t) ==
    /\ b.last_failure_time # None
    /\ t - b.last_failure_time[1] >= b.recovery_timeout

\* _on_success closing the circuit without resetting the count
on_success_KeepCount(b) == [b EXCEPT !.state = CLOSED]
on_success(b) == [b EXCEPT !.failure_count = 0, !.state = CLOSED]

\* on_failure opening the circuit only above the threshold
on_failure_Above(b, t) ==
    LET b1 == [b EXCEPT !.failure_count = @ + 1, !.last_failure_time = Some(t)]
    IN  IF b1.failure_count > b1.failure_threshold
          THEN [b1 EXCEPT !.state = OPEN]
          ELSE b1

on_failure(b, t) ==
    LET b1 == [b EXCEPT !.failure_count = @ + 1, !.last_failure_time = Some(t)]
    IN  IF b1.failure_count >= b1.failure_threshold
          THEN [b1 EXCEPT !.state = OPEN]
          ELSE b1

\* the entry test of call / call_async: <<breaker after the test, admitted>>
Enter(b, t) ==
    IF b.state = OPEN
      THEN IF should_attempt_reset(b, t)
             THEN <<[b EXCEPT !.state = HALF_OPEN], TRUE>>
             ELSE <<b, FALSE>>
      ELSE <<b, TRUE>>

\* what the try/except around the operation does to the breaker, given the
\* operation's result
Record(b, r, t) ==
    IF r = "ok" THEN on_success(b)
    ELSE IF IsInstance(r, b.expected_exception) THEN on_failure(b, t)
    ELSE b

\* the history of recorded results
RecordConsec(b, r) ==
    IF r = "ok" THEN 0
    ELSE IF IsInstance(r, b.expected_exception) THEN consec + 1
    ELSE consec

Callers == {"c1", "c2", "c3"}
CbRet(result, invoked) == [result |-> result, invoked |-> invoked]

\* a synchronous call blocks the thread: nothing else runs until it returns
NoneRunning == \A c \in Callers : pc[c] # "running"

\* entry of call / call_async by an idle caller; mode is running or awaiting
EnterCall(c, mode) ==
    LET e == Enter(cb, now)
    IN  /\ pc[c] = "idle"
        /\ NoneRunning
        /\ cb' = e[1]
        /\ IF e[2]
             THEN /\ pc' = [pc EXCEPT ![c] = mode]
                  /\ found' = [found EXCEPT ![c] = cb.state]
                  /\ cb_ret' = CbRet("pending", TRUE)
             ELSE /\ UNCHANGED <<pc, found>>
                  /\ cb_ret' = CbRet("CircuitOpen", FALSE)
        /\ UNCHANGED <<service, attempt, consec, now>>
        /\ UNCHANGED <<jobVars, dgVars>> /\ UNCHANGED newVars

\* the operation returns r (or raises it); the breaker records it and the
\* caller gets r
LeaveCall(c, mode, r) ==
    /\ pc[c] = mode
    /\ cb' = Record(cb, r, now)
    /\ consec' = RecordConsec(cb, r)
    /\ pc' = [pc EXCEPT ![c] = "idle"]
    /\ found' = [found EXCEPT ![c] = ""]
    /\ cb_ret' = CbRet(r, FALSE)
    /\ UNCHANGED <<service, attempt, now>>
    /\ UNCHANGED <<jobVars, dgVars>> /\ UNCHANGED newVars

\* ServiceCircuitBreaker.call, lines 49-53 and 55-62
call_enter(c) == service = "" /\ EnterCall(c, "running")
call_return(c, r) == service = "" /\ LeaveCall(c, "running", r)

\* ServiceCircuitBreaker.call_async, lines 68-72 and 74-84 (around the await)
call_async_enter(c) == service = "" /\ EnterCall(c, "awaiting")
call_async_return(c, r) == service = "" /\ NoneRunning /\ LeaveCall(c, "awaiting", r)

(***************************************************************************)
(*                  resilient_call: retry inside the breaker               *)
(***************************************************************************)
Services == {"deepgram", "gemini", "firebase", "default"}

\* RetryConfig: stop_after_attempt(n) and retry_if_exception_type(types)
RetryConfig(stop, retry) == [stop |-> stop, retry |-> retry]
DEEPGRAM == RetryConfig(3, NetworkErrors)
GEMINI == RetryConfig(3, NetworkErrors)
FIREBASE == RetryConfig(5, {"ConnectionError", "TimeoutError"})

\* the service-specific configuration chosen by the decorator
circuit_breaker(service_name) ==
    IF service_name = "deepgram" THEN deepgram_circuit
    ELSE IF service_name = "gemini" THEN gemini_circuit
    ELSE IF service_name = "firebase" THEN firebase_circuit
    ELSE default_circuit
retry_config(service_name) ==
    IF service_name = "deepgram" THEN DEEPGRAM
    ELSE IF service_name = "gemini" THEN GEMINI
    ELSE FIREBASE

\* tenacity after attempt number n of the operation produced r:
\* "ok" is returned, "retry" sleeps and tries again, RetryError is raised
\* when the attempts are used up, any other exception is raised as it is
Retried(cfg, n, r) ==
    IF r = "ok" THEN "ok"
    ELSE IF IsInstance(r, cfg.retry)
      THEN IF n >= cfg.stop THEN "RetryError" ELSE "retry"
    ELSE r

\* async_wrapper: circuit_breaker.call_async(retried_func), entry test
resilient_enter(c) ==
    LET e == Enter(cb, now)
    IN  /\ service # ""
        /\ pc[c] = "idle"
        /\ cb' = e[1]
        /\ IF e[2]
             THEN /\ pc' = [pc EXCEPT ![c] = "awaiting"]
                  /\ found' = [found EXCEPT ![c] = cb.state]
                  /\ attempt' = [attempt EXCEPT ![c] = 1]
                  /\ cb_ret' = CbRet("pending", TRUE)
             ELSE /\ UNCHANGED <<pc, found, attempt>>
                  /\ cb_ret' = CbRet("CircuitOpen", FALSE)
        /\ UNCHANGED <<service, consec, now>>
        /\ UNCHANGED <<jobVars, dgVars>> /\ UNCHANGED newVars

\* one attempt of the wrapped operation finishes with r; the retry loop
\* either goes on, or retried_func finishes and the breaker records its result
resilient_attempt(c, r) ==
    LET out == Retried(retry_config(service), attempt[c], r)
    IN  /\ service # ""
        /\ pc[c] = "awaiting"
        /\ IF out = "retry"
             THEN /\ attempt' = [attempt EXCEPT ![c] = @ + 1]
                  /\ cb_ret' = CbRet("retry", TRUE)
                  /\ UNCHANGED <<cb, consec, pc, found>>
             ELSE /\ cb' = Record(cb, out, now)
                  /\ consec' = RecordConsec(cb, out)
                  /\ pc' = [pc EXCEPT ![c] = "idle"]
                  /\ found' = [found EXCEPT ![c] = ""]
                  /\ attempt' = [attempt EXCEPT ![c] = 0]
                  /\ cb_ret' = CbRet(out, FALSE)
        /\ UNCHANGED <<service, now>>
        /\ UNCHANGED <<jobVars, dgVars>> /\ UNCHANGED newVars

\* time passes
Tick ==
    /\ now + TickSeconds <= StartTime + MaxElapsed
    /\ now' = now + TickSeconds
    /\ UNCHANGED <<jobVars, cbVars, dgVars>> /\ UNCHANGED newVars

(***************************************************************************)
(*                    transcribe_with_deepgram_api                         *)
(***************************************************************************)
max_retries == 2

\* what one client.post can produce: a response status, a 200 response whose
\* body is not JSON, httpx.TimeoutException, or another exception such as
\* httpx.ConnectError
StatusCodes == {"200", "400", "401", "403", "404", "415", "429", "500", "503"}
PostOutcomes == StatusCodes \cup {"BadJSON", "TimeoutException", "ConnectError"}

\* statuses answered without another attempt, omitting 415
NoRetryStatus_Without415 == {"400", "401", "403"}

\* "Don't retry on certain errors (auth, format, etc.)"
NoRetryStatus == {"400", "401", "403", "415"}

\* attempt < max_retries
MayRetry(attempt_no) == attempt_no < max_retries

\* one iteration of the loop: <<"continue" | "return" | "raise", result>>
Iteration(attempt_no, o) ==
    IF o = "200" THEN <<"return", "ok">>
    ELSE IF o = "BadJSON" THEN <<"raise", "HTTP500">>
    ELSE IF o \in StatusCodes
      THEN IF o \in NoRetryStatus THEN <<"raise", "HTTP500">>
           ELSE IF MayRetry(attempt_no) THEN <<"continue", "">>
           ELSE <<"raise", "HTTP500">>
    ELSE IF o = "TimeoutException"
      THEN IF MayRetry(attempt_no) THEN <<"continue", "">>
           ELSE <<"raise", "HTTP408">>
    ELSE <<"raise", "HTTP500">>

Min(a, b) == IF a < b THEN a ELSE b
\* asyncio.sleep before attempt number attempt_no
wait_time(attempt_no) == IF attempt_no > 0 THEN Min(30, 5 * attempt_no) ELSE 0

\* lines 138-184: the API key, the file size and the read of the audio file
transcribe_start(key, file) ==
    /\ dg_pc = "idle"
    /\ IF key = "missing"
         THEN dg_pc' = "done" /\ dg_result' = "HTTP503"
       ELSE IF file = "missing"
         THEN dg_pc' = "done" /\ dg_result' = "OSError"
       ELSE IF file = "unreadable"
         THEN dg_pc' = "done" /\ dg_result' = "HTTP500"
       ELSE dg_pc' = "loop" /\ dg_result' = ""
    /\ dg_attempt' = 0
    /\ dg_history' = <<>>
    /\ UNCHANGED now
    /\ UNCHANGED <<jobVars, cbVars>> /\ UNCHANGED newVars

\* lines 187-246: one pass through the retry loop, the post produces o
transcribe_attempt(o) ==
    LET it == Iteration(dg_attempt, o)
    IN  /\ dg_pc = "loop"
        /\ now' = now + wait_time(dg_attempt)
        /\ dg_history' = Append(dg_history, o)
        /\ IF it[1] = "continue"
             THEN /\ dg_attempt' = dg_attempt + 1
                  /\ UNCHANGED <<dg_pc, dg_result>>
             ELSE /\ dg_pc' = "done"
                  /\ dg_result' = it[2]
                  /\ UNCHANGED dg_attempt
        /\ UNCHANGED <<jobVars, cbVars>> /\ UNCHANGED newVars

(***************************************************************************)
(*          RATE LIMITER (backend/utils/rate_limiter.py)                   *)
(***************************************************************************)
MaxRateTicks == 2   \* rate limiter: clock observations in one behaviour
MaxCalls == 3       \* rate limiter: check_rate_limit calls in one behaviour
MaxTempFiles == 2   \* pipelines: temporary files on disk at one time
MaxUploads == 2     \* background pipeline: accepted quick uploads in one behaviour

\* time.time() at the first call: 12:30:00 into a day, so that every count
\* below the hour and day ceilings can have been admitted earlier that day
RateStart == 45000
RateSteps == {1, 59, 3600}      \* seconds between two observations of the clock

Tiers == {"free_user", "premium_user", "enterprise_user", "admin"}
Limits(m, h, d) ==
    [requests_per_minute |-> m, requests_per_hour |-> h, requests_per_day |-> d]
default_limits ==
    [t \in Tiers |->
        CASE t = "free_user" -> Limits(5, 50, 200)
          [] t = "premium_user" -> Limits(20, 500, 2000)
          [] t = "enterprise_user" -> Limits(100, 2000, 10000)
          [] t = "admin" -> Limits(1000, 10000, 50000)]
\* self.default_limits.get(user_tier, self.default_limits["free_user"])
limits(user_tier) ==
    IF user_tier \in DOMAIN default_limits THEN default_limits[user_tier]
    ELSE default_limits["free_user"]

Windows == <<"minute", "hour", "day">>
WindowSeconds(w) ==
    CASE w = "minute" -> 60
      [] w = "hour" -> 3600
      [] w = "day" -> 86400
\* the ceiling of one window, as a tuple in the order of Windows
Ceilings(lim) ==
    <<lim.requests_per_minute, lim.requests_per_hour, lim.requests_per_day>>

\* A user id or endpoint is the tuple of its ":"-separated segments, and a
\* redis key the tuple of the segments of its text:
\* f"rate_limit:{user_id}:{endpoint}:minute:{current_time // 60}"
RateUsers == {<<"alice">>}
Endpoints == {<<"upload">>}
Weights == {1, 2}
RateKey(user_id, endpoint, w, current_time) ==
    <<"rate_limit">> \o user_id \o endpoint
        \o <<w, ToString(current_time \div WindowSeconds(w))>>
\* the bucket a key counts: user, endpoint, window and window number
Bucket(user_id, endpoint, w, current_time) ==
    <<user_id, endpoint, w, current_time \div WindowSeconds(w)>>

\* ---- the redis commands the limiter uses --------------------------------
Entry(value, expires_at) == [value |-> value, expires_at |-> expires_at]
NoExpiry == -1
Alive(st, key, t) ==
    /\ key \in DOMAIN st
    /\ (st[key].expires_at = NoExpiry \/ st[key].expires_at > t)
\* GET: None for a missing or expired key
redis_get(st, key, t) == IF Alive(st, key, t) THEN Some(st[key].value) ELSE None
\* INCRBY: a missing key counts from 0 and has no expiry
redis_incr(st, key, amount, t) ==
    IF Alive(st, key, t)
    THEN [st EXCEPT ![key].value = @ + amount]
    ELSE [k \in DOMAIN st \cup {key} |->
            IF k = key THEN Entry(amount, NoExpiry) ELSE st[k]]
redis_expire(st, key, ttl, t) ==
    IF Alive(st, key, t) THEN [st EXCEPT ![key].expires_at = t + ttl] ELSE st
\* redis drops a key once its expiry time has come
Purge(st, t) ==
    [k \in {x \in DOMAIN st : Alive(st, x, t)} |-> st[k]]
\* int(await self.redis_client.get(key) or 0)
Count(got) == IF got = None THEN 0 ELSE got[1]

\* ---- check_rate_limit ----------------------------------------------------
RateCallers == {"r1", "r2"}
IdleLoc ==
    [user_id |-> <<>>, endpoint |-> <<>>, request_weight |-> 0,
     current_time |-> 0, counts |-> <<>>]
\* the returned dict; fields a dict lacks are "" or 0
RateResult(c, counts, allowed, limit_type, current_usage, limit, reset_time, retry_after, error) ==
    [caller |-> c, allowed |-> allowed, limit_type |-> limit_type,
     current_usage |-> current_usage, limit |-> limit,
     reset_time |-> reset_time, retry_after |-> retry_after, error |-> error,
     user_id |-> rl_loc[c].user_id, endpoint |-> rl_loc[c].endpoint,
     request_weight |-> rl_loc[c].request_weight,
     current_time |-> rl_loc[c].current_time,
     counts |-> counts]
NoResult ==
    [caller |-> "", allowed |-> "", limit_type |-> "", current_usage |-> 0,
     limit |-> 0, reset_time |-> 0, retry_after |-> 0, error |-> "",
     user_id |-> <<>>, endpoint |-> <<>>, request_weight |-> 0,
     current_time |-> 0, counts |-> <<>>]

\* if minute_count + weighted_request > limits["requests_per_minute"]:
Exceeds(count, weighted_request, limit) == count + weighted_request > limit

\* the tests run minute, hour, day and the first violated one returns:
\* its index in Windows, or 0 when every window has room
RejectedBy(counts, weighted_request, lim) ==
    LET bad == {i \in 1..3 : Exceeds(counts[i], weighted_request, Ceilings(lim)[i])}
    IN IF bad = {} THEN 0 ELSE CHOOSE i \in bad : \A j \in bad : i <= j

reset_time(current_time, w) ==
    ((current_time \div WindowSeconds(w)) + 1) * WindowSeconds(w)
\* "retry_after": 60 - (current_time % 60)
retry_after(current_time, w) ==
    WindowSeconds(w) - (current_time % WindowSeconds(w))

error_result_Closed(c, counts, e) == RateResult(c, counts, "False", "", 0, 0, 0, 0, e)
\* except Exception as e: return {"allowed": True, "error": str(e)}
error_result(c, counts, e) == RateResult(c, counts, "True", "", 0, 0, 0, 0, e)

\* what the store does to the next command of a caller: "" when it answers
StoreError ==
    CASE rl_kind = "none" -> "AttributeError"
      [] rl_kind = "redis" /\ ~rl_up -> "ConnectionError"
      [] OTHER -> ""

Return(c, result) ==
    /\ rl_ret' = result
    /\ rl_pc' = [rl_pc EXCEPT ![c] = "idle"]
    /\ rl_loc' = [rl_loc EXCEPT ![c] = IdleLoc]

\* entry: initialize(), current_time = int(time.time()), the limits and keys
rl_begin(c, user_id, endpoint, request_weight) ==
    /\ rl_pc[c] = "idle"
    /\ rl_calls < MaxCalls
    /\ rl_calls' = rl_calls + 1
    /\ rl_pc' = [rl_pc EXCEPT ![c] = "get"]
    /\ rl_loc' = [rl_loc EXCEPT ![c] =
                    [user_id |-> user_id, endpoint |-> endpoint,
                     request_weight |-> request_weight,
                     current_time |-> now, counts |-> <<>>]]
    /\ UNCHANGED <<rl_kind, rl_up, rl_tier, rl_store, rl_ret, rl_admitted, rl_ticks, now>>
    /\ UNCHANGED <<jobVars, cbVars, dgVars, lateVars, pqVars, wfVars, bgVars>>

\* one of the three awaited GETs; after the third the tests run, and a call
\* with room in every window builds its pipeline
rl_get(c) ==
    /\ rl_pc[c] = "get"
    /\ LET l == rl_loc[c]
           i == Len(l.counts) + 1
           w == Windows[i]
           key == RateKey(l.user_id, l.endpoint, w, l.current_time)
           got == IF rl_kind = "mock" THEN None ELSE redis_get(rl_store, key, now)
           counts == Append(l.counts, Count(got))
           lim == limits(rl_tier)
           r == RejectedBy(counts, l.request_weight, lim)
       IN IF StoreError # ""
          THEN Return(c, error_result(c, l.counts, StoreError))
          ELSE IF i < 3
          THEN /\ rl_loc' = [rl_loc EXCEPT ![c].counts = counts]
               /\ UNCHANGED <<rl_pc, rl_ret>>
          ELSE IF r # 0
          THEN Return(c, RateResult(c, counts, "False", Windows[r], counts[r],
                                    Ceilings(lim)[r],
                                    reset_time(l.current_time, Windows[r]),
                                    retry_after(l.current_time, Windows[r]), ""))
          ELSE IF rl_kind = "mock"
          \* pipe = self.redis_client.pipeline(): the mock has no such method
          THEN Return(c, error_result(c, counts, "AttributeError"))
          ELSE /\ rl_loc' = [rl_loc EXCEPT ![c].counts = counts]
               /\ rl_pc' = [rl_pc EXCEPT ![c] = "execute"]
               /\ UNCHANGED rl_ret
    /\ UNCHANGED <<rl_kind, rl_up, rl_tier, rl_store, rl_admitted, rl_ticks, rl_calls, now>>
    /\ UNCHANGED <<jobVars, cbVars, dgVars, lateVars, pqVars, wfVars, bgVars>>

\* a pipeline that leaves the day counter out
Admit_NoDay(st, user_id, endpoint, current_time, amount, t) ==
    LET k1 == RateKey(user_id, endpoint, "minute", current_time)
        k2 == RateKey(user_id, endpoint, "hour", current_time)
        s1 == redis_expire(redis_incr(st, k1, amount, t), k1, WindowSeconds("minute"), t)
    IN redis_expire(redis_incr(s1, k2, amount, t), k2, WindowSeconds("hour"), t)
\* the pipeline: INCRBY and EXPIRE of the three keys, in one transaction
Admit(st, user_id, endpoint, current_time, amount, t) ==
    LET k1 == RateKey(user_id, endpoint, "minute", current_time)
        k2 == RateKey(user_id, endpoint, "hour", current_time)
        k3 == RateKey(user_id, endpoint, "day", current_time)
        s1 == redis_expire(redis_incr(st, k1, amount, t), k1, WindowSeconds("minute"), t)
        s2 == redis_expire(redis_incr(s1, k2, amount, t), k2, WindowSeconds("hour"), t)
    IN redis_expire(redis_incr(s2, k3, amount, t), k3, WindowSeconds("day"), t)

\* the weight admitted on each bucket of the call grows by its weight
Admitted(adm, user_id, endpoint, current_time, amount) ==
    LET bs == {Bucket(user_id, endpoint, Windows[i], current_time) : i \in 1..3}
    IN [b \in DOMAIN adm \cup bs |->
          (IF b \in DOMAIN adm THEN adm[b] ELSE 0) + (IF b \in bs THEN amount ELSE 0)]

\* await pipe.execute(), then the allowed result
rl_execute(c) ==
    /\ rl_pc[c] = "execute"
    /\ LET l == rl_loc[c]
       IN IF StoreError # ""
          THEN /\ Return(c, error_result(c, l.counts, StoreError))
               /\ UNCHANGED <<rl_store, rl_admitted>>
          ELSE /\ rl_store' = Admit(rl_store, l.user_id, l.endpoint, l.current_time,
                                    l.request_weight, now)
               /\ rl_admitted' = Admitted(rl_admitted, l.user_id, l.endpoint,
                                          l.current_time, l.request_weight)
               /\ Return(c, RateResult(c, l.counts, "True", "", 0, 0, 0, 0, ""))
    /\ UNCHANGED <<rl_kind, rl_up, rl_tier, rl_ticks, rl_calls, now>>
    /\ UNCHANGED <<jobVars, cbVars, dgVars, lateVars, pqVars, wfVars, bgVars>>

\* the buckets a call in flight still refers to
InFlight ==
    {Bucket(rl_loc[c].user_id, rl_loc[c].endpoint, Windows[i], rl_loc[c].current_time) :
        c \in {x \in RateCallers : rl_pc[x] # "idle"}, i \in 1..3}

\* socket_timeout of the redis client: no store command of a call in flight
\* is awaited longer
socket_timeout == 5
\* time passes; expired keys go, and so does the account of buckets that ended
RateTick(d) ==
    /\ rl_ticks < MaxRateTicks
    /\ d > socket_timeout => \A c \in RateCallers : rl_pc[c] = "idle"
    /\ rl_ticks' = rl_ticks + 1
    /\ now' = now + d
    /\ rl_store' = Purge(rl_store, now')
    /\ rl_admitted' =
          [b \in {x \in DOMAIN rl_admitted :
                    x \in InFlight \/ x[4] = now' \div WindowSeconds(x[3])}
              |-> rl_admitted[b]]
    /\ UNCHANGED <<rl_kind, rl_up, rl_tier, rl_pc, rl_loc, rl_ret, rl_calls>>
    /\ UNCHANGED <<jobVars, cbVars, dgVars, lateVars, pqVars, wfVars, bgVars>>

\* the redis server goes away or comes back
StoreFlip ==
    /\ rl_kind = "redis"
    /\ rl_up' = ~rl_up
    /\ UNCHANGED <<rl_kind, rl_tier, rl_store, rl_pc, rl_loc, rl_ret, rl_admitted, rl_ticks,
                   rl_calls, now>>
    /\ UNCHANGED <<jobVars, cbVars, dgVars, lateVars, pqVars, wfVars, bgVars>>

(***************************************************************************)
(*   PRIORITY QUEUE of rate-limited requests (backend/utils/rate_limiter.py)*)
(***************************************************************************)
MaxQueued == 3      \* priority queue: requests queued in one behaviour
MaxQueueTicks == 2  \* priority queue: clock observations in one behaviour

Priorities == {0, 5, 9}
QueueUsers == {<<"alice">>, <<"bob">>}
QueueSteps == {1, 3600000}      \* milliseconds between two observations of the clock
QueueStart == 45000000          \* int(time.time() * 1000) at the first call
DataTtl == 3600                 \* seconds

\* request_id = f"{user_id}:{int(time.time() * 1000)}"
RequestId(user_id, ms) == user_id \o <<ToString(ms)>>
QueuedRequest(user_id, priority, ms) ==
    [user_id |-> user_id, priority |-> priority, queued_at |-> ms \div 1000,
     expires_at |-> ms + DataTtl * 1000]
NoRequest ==
    [op |-> "", asked |-> -1, request_id |-> <<>>, result |-> "",
     user_id |-> <<>>, priority |-> -1]
Queued == {<<p, i>> : p \in Priorities, i \in 1..MaxQueued + 1}
\* the requests waiting in the lists
Waiting == {pi \in Queued : pi[2] <= Len(pq_store[pi[1]])}

\* LPUSH of the id on priority_queue:{priority}, then HSET and EXPIRE of
\* queue_data:{request_id}; returns the id
add_to_priority_queue(user_id, priority) ==
    /\ Cardinality(Waiting) < MaxQueued
    /\ LET request_id == RequestId(user_id, pq_ms)
       IN /\ pq_store' = [pq_store EXCEPT ![priority] = <<request_id>> \o @]
          /\ pq_data' = [k \in DOMAIN pq_data \cup {request_id} |->
                           IF k = request_id
                           THEN QueuedRequest(user_id, priority, pq_ms)
                           ELSE pq_data[k]]
          /\ pq_ret' = [op |-> "add_to_priority_queue", asked |-> priority,
                        request_id |-> request_id, result |-> "id",
                        user_id |-> user_id, priority |-> priority]
    /\ UNCHANGED <<pq_ms, pq_ticks>>
    /\ UNCHANGED <<now, jobVars, cbVars, dgVars, lateVars, rlVars, wfVars, bgVars>>

\* RPOP from priority_queue:{priority} only; then HGETALL and DELETE of the
\* request's data. None when that list is empty or the data is gone.
process_priority_queue(priority) ==
    /\ LET q == pq_store[priority]
       IN IF q = <<>>
          THEN /\ pq_ret' = [NoRequest EXCEPT !.op = "process_priority_queue",
                                              !.asked = priority, !.result = "None"]
               /\ UNCHANGED <<pq_store, pq_data>>
          ELSE LET request_id == q[Len(q)]
               IN /\ pq_store' = [pq_store EXCEPT ![priority] = SubSeq(q, 1, Len(q) - 1)]
                  /\ IF request_id \in DOMAIN pq_data
                     THEN /\ pq_data' = [k \in DOMAIN pq_data \ {request_id} |-> pq_data[k]]
                          /\ pq_ret' = [op |-> "process_priority_queue",
                                        asked |-> priority,
                                        request_id |-> request_id, result |-> "dict",
                                        user_id |-> pq_data[request_id].user_id,
                                        priority |-> pq_data[request_id].priority]
                     ELSE /\ pq_ret' = [NoRequest EXCEPT !.op = "process_priority_queue",
                                                         !.asked = priority,
                                                         !.request_id = request_id,
                                                         !.result = "None"]
                          /\ UNCHANGED pq_data
    /\ UNCHANGED <<pq_ms, pq_ticks>>
    /\ UNCHANGED <<now, jobVars, cbVars, dgVars, lateVars, rlVars, wfVars, bgVars>>

\* time passes; request data older than its expiry is dropped by redis
QueueTick(d) ==
    /\ pq_ticks < MaxQueueTicks
    /\ pq_ticks' = pq_ticks + 1
    /\ pq_ms' = pq_ms + d
    /\ pq_data' = [k \in {x \in DOMAIN pq_data : pq_data[x].expires_at > pq_ms'} |-> pq_data[k]]
    /\ UNCHANGED <<pq_store, pq_ret>>
    /\ UNCHANGED <<now, jobVars, cbVars, dgVars, lateVars, rlVars, wfVars, bgVars>>

(***************************************************************************)
(*   SYNCHRONOUS PIPELINE (backend/routes/podcast_workflow.py)             *)
(***************************************************************************)
Stages == <<"upload", "transcription", "seo_generation", "firestore_save">>
\* class WorkflowStep: every flag False
WorkflowStep ==
    [upload |-> FALSE, transcription |-> FALSE,
     seo_generation |-> FALSE, firestore_save |-> FALSE]
\* a dict is the tuple of its content; {} is the empty dict
EmptyDict == <<"{}">>
NoInfo ==
    [storage_info |-> EmptyDict, transcription_info |-> EmptyDict,
     seo_info |-> EmptyDict, firestore_info |-> EmptyDict]
\* storage_info if storage_info else None
OrNone(d) == IF d = EmptyDict THEN None ELSE d

Filenames == {"", "ep.mp3", "notes.txt"}
ContentTypes == {"audio/mpeg", "text/plain"}
SUPPORTED_AUDIO_TYPES ==
    {"audio/mpeg", "audio/mp4", "audio/wav", "audio/x-wav", "audio/mp3",
     "audio/m4a", "audio/flac", "audio/ogg"}
SUPPORTED_EXTENSIONS == {".mp3", ".m4a", ".wav", ".mp4", ".flac", ".ogg"}
Files == [filename : Filenames, content_type : ContentTypes]
NoFile == [filename |-> "", content_type |-> ""]
\* what a call to an external service does: it returns, or raises this
StageErrors == {"TimeoutError", "ValueError"}
StageOutcomes == {"ok"} \cup StageErrors
Transcripts == {"", "hello world"}
DocIds == {"doc1"}

\* validate_audio_file returns a dict {"valid": ..., "error": ...} in every case
Suffix(filename) ==
    CASE filename = "ep.mp3" -> ".mp3"
      [] filename = "notes.txt" -> ".txt"
      [] OTHER -> ""
validate_audio_file(file) ==
    IF \/ file.content_type \in SUPPORTED_AUDIO_TYPES
       \/ (file.filename # "" /\ Suffix(file.filename) \in SUPPORTED_EXTENSIONS)
    THEN [valid |-> TRUE, error |-> None]
    ELSE [valid |-> FALSE, error |-> Some("Unsupported file type")]
\* truth value of a dict: whether it has any key
DictTruthy(d) == DOMAIN d # {}

\* the response of the handler: a WorkflowResponse it returned, or the
\* HTTPException it raised
WorkflowResponse(success, steps, info, error) ==
    [kind |-> "returned", status_code |-> 200, success |-> success,
     steps_completed |-> steps,
     storage_info |-> info.storage_info,
     transcription_info |-> info.transcription_info,
     seo_info |-> info.seo_info,
     firestore_info |-> info.firestore_info,
     error |-> error]
HTTPException(status_code, detail) ==
    [kind |-> "raised", status_code |-> status_code, success |-> "",
     steps_completed |-> WorkflowStep,
     storage_info |-> None, transcription_info |-> None,
     seo_info |-> None, firestore_info |-> None,
     error |-> detail]
NoResponse ==
    [kind |-> "", status_code |-> 0, success |-> "",
     steps_completed |-> WorkflowStep,
     storage_info |-> None, transcription_info |-> None,
     seo_info |-> None, firestore_info |-> None,
     error |-> None]

\* each step function turns any exception into an HTTPException (500) whose
\* detail names the step
StepDetail(stage) ==
    CASE stage = "upload" -> "Upload step failed"
      [] stage = "transcription" -> "Transcription step failed"
      [] stage = "seo_generation" -> "SEO generation step failed"
      [] stage = "firestore_save" -> "Firestore save step failed"
StepRaises(stage, e) == HTTPException(500, <<StepDetail(stage), e>>)

\* where the handler goes after a step: on when the step returned, out when
\* it raised
AfterStep_GoOn(stage, returned) ==
    CASE stage = "upload" -> "seek"
      [] stage = "transcription" -> "seo_generation"
      [] stage = "seo_generation" -> "firestore_save"
      [] stage = "firestore_save" -> "respond"
AfterStep(stage, returned) ==
    IF ~returned THEN "done"
    ELSE CASE stage = "upload" -> "seek"
           [] stage = "transcription" -> "seo_generation"
           [] stage = "seo_generation" -> "firestore_save"
           [] stage = "firestore_save" -> "respond"

\* the handler up to its first step: the filename and format tests
wf_start(file, user_id) ==
    /\ wf_pc \in {"idle", "done"}
    /\ wf_req' = [file |-> file, user_id |-> user_id]
    /\ wf_steps' = WorkflowStep
    /\ wf_info' = NoInfo
    /\ wf_attempted' = <<>>
    /\ UNCHANGED wf_tmp
    /\ IF file.filename = ""
       THEN /\ wf_out' = HTTPException(400, <<"No filename provided", "">>)
            /\ wf_pc' = "done"
       ELSE IF ~DictTruthy(validate_audio_file(file))
       THEN /\ wf_out' = HTTPException(400, <<"Unsupported file format", "">>)
            /\ wf_pc' = "done"
       ELSE /\ wf_out' = NoResponse
            /\ wf_pc' = "upload"
    /\ UNCHANGED <<now, jobVars, cbVars, dgVars, lateVars, rlVars, pqVars, bgVars>>

\* one step: the call, then on return the result container and the flag,
\* on an exception the step's HTTPException, which the handler re-raises
Step(stage, o, result) ==
    /\ wf_pc = stage
    /\ wf_attempted' = Append(wf_attempted, stage)
    /\ wf_pc' = AfterStep(stage, o = "ok")
    /\ IF o = "ok"
       THEN /\ wf_steps' = [wf_steps EXCEPT ![stage] = TRUE]
            /\ wf_info' = result
            /\ UNCHANGED wf_out
       ELSE /\ wf_out' = StepRaises(stage, o)
            /\ UNCHANGED <<wf_steps, wf_info>>
    /\ UNCHANGED wf_req
    /\ UNCHANGED <<now, jobVars, cbVars, dgVars, lateVars, rlVars, pqVars, bgVars>>

step_1_upload_to_storage(o) ==
    /\ Step("upload", o,
            [wf_info EXCEPT !.storage_info = <<"storage", wf_req.file.filename>>])
    /\ UNCHANGED wf_tmp

\* tempfile.NamedTemporaryFile(delete=False): a file under a name not on disk
NamedTemporaryFile(disk) ==
    CHOOSE n \in 1..MaxTempFiles : n \notin disk /\ \A m \in 1..MaxTempFiles \ disk : n <= m
\* where an exception of the transcription step is raised: in file.read()
\* inside the with block, or in the try block that follows it
RaisedAt(o) == IF o = "ok" THEN {"nowhere"} ELSE {"read", "transcribe"}
\* the temporary file is made, the body read and written into it; then, in
\* try/finally, the vendor call, and the file unlinked
step_2_transcribe_audio(o, transcript) ==
    /\ Cardinality(wf_tmp) < MaxTempFiles
    /\ Step("transcription", o,
            [wf_info EXCEPT !.transcription_info = <<"transcript", transcript>>])
    /\ \E at \in RaisedAt(o) :
          LET temp_file_path == NamedTemporaryFile(wf_tmp)
              made == wf_tmp \cup {temp_file_path}
          IN wf_tmp' = IF at = "read" THEN made ELSE made \ {temp_file_path}
step_3_generate_seo_content(o) ==
    /\ Step("seo_generation", o,
            [wf_info EXCEPT !.seo_info = <<"seo", wf_info.transcription_info[2]>>])
    /\ UNCHANGED wf_tmp
step_4_save_to_firestore(o, doc_id) ==
    /\ Step("firestore_save", o,
            [wf_info EXCEPT !.firestore_info = <<"doc_id", doc_id>>])
    /\ UNCHANGED wf_tmp

\* except Exception: the handler returns a response with success False,
\* the flags so far and the non-empty result containers
Failed(e) ==
    WorkflowResponse("False", wf_steps,
        [storage_info |-> OrNone(wf_info.storage_info),
         transcription_info |-> OrNone(wf_info.transcription_info),
         seo_info |-> OrNone(wf_info.seo_info),
         firestore_info |-> OrNone(wf_info.firestore_info)],
        <<"Workflow failed", e>>)

\* await file.seek(0) between upload and transcription
wf_seek(o) ==
    /\ wf_pc = "seek"
    /\ IF o = "ok"
       THEN /\ wf_pc' = "transcription"
            /\ UNCHANGED wf_out
       ELSE /\ wf_pc' = "done"
            /\ wf_out' = Failed(o)
    /\ UNCHANGED <<wf_req, wf_steps, wf_info, wf_attempted, wf_tmp>>
    /\ UNCHANGED <<now, jobVars, cbVars, dgVars, lateVars, rlVars, pqVars, bgVars>>

\* building the WorkflowResponse after the fourth step
wf_respond(o) ==
    /\ wf_pc = "respond"
    /\ wf_pc' = "done"
    /\ wf_out' = IF o = "ok"
                 THEN WorkflowResponse("True", wf_steps, wf_info, None)
                 ELSE Failed(o)
    /\ UNCHANGED <<wf_req, wf_steps, wf_info, wf_attempted, wf_tmp>>
    /\ UNCHANGED <<now, jobVars, cbVars, dgVars, lateVars, rlVars, pqVars, bgVars>>

(***************************************************************************)
(*   BACKGROUND PIPELINE (backend/routes/podcast_workflow.py)              *)
(***************************************************************************)
BackgroundStages == <<"download", "transcribe", "generate", "save">>
NoUpload == [success |-> "", upload_id |-> <<>>, user_id |-> "", error |-> None]
\* upload_id = f"upload_{int(time.time())}_{user_id}"
UploadId(t, user_id) == <<"upload", ToString(t), user_id>>

\* the handler: upload, then the background task is added and the response
\* returned; an exception of the upload becomes a response with success False
quick_upload_and_process(user_id, o) ==
    /\ bg_pc \in {"idle", "done"}
    /\ Len(bg_ids) < MaxUploads
    /\ bg_calls' = <<>>
    /\ bg_log' = ""
    /\ UNCHANGED bg_tmp
    /\ IF o = "ok"
       THEN /\ bg_out' = [success |-> "True", upload_id |-> UploadId(now, user_id),
                          user_id |-> user_id, error |-> None]
            /\ bg_ids' = Append(bg_ids, UploadId(now, user_id))
            /\ bg_pc' = "download"
       ELSE /\ bg_out' = [success |-> "False", upload_id |-> <<>>,
                          user_id |-> user_id,
                          error |-> <<"Quick upload failed", StepDetail("upload"), o>>]
            /\ UNCHANGED bg_ids
            /\ bg_pc' = "done"
    /\ UNCHANGED <<now, jobVars, cbVars, dgVars, lateVars, rlVars, pqVars, wfVars>>

NextBackgroundStage(stage) ==
    CASE stage = "download" -> "transcribe"
      [] stage = "transcribe" -> "generate"
      [] stage = "generate" -> "save"
      [] stage = "save" -> "done"

\* one stage of process_workflow_background: requests.get of the file,
\* transcribe_with_deepgram_api, generate_seo_content_with_gemini,
\* save_complete_podcast_workflow. An exception ends the run with a log line.
\* The temporary file is made before the download, inside the with block;
\* the try/finally that unlinks it starts after the with block.
process_workflow_background(o) ==
    /\ bg_pc \in {BackgroundStages[i] : i \in 1..4}
    /\ bg_pc = "download" => Len(bg_tmp) < MaxTempFiles
    /\ bg_calls' = Append(bg_calls, bg_pc)
    /\ IF o = "ok"
       THEN /\ bg_pc' = NextBackgroundStage(bg_pc)
            /\ bg_log' = IF bg_pc = "save" THEN "completed" ELSE bg_log
       ELSE /\ bg_pc' = "done"
            /\ bg_log' = "failed"
    /\ bg_tmp' =
          IF bg_pc = "download"
          THEN Append(bg_tmp, NamedTemporaryFile({bg_tmp[i] : i \in 1..Len(bg_tmp)}))
          \* finally: os.unlink(temp_file_path), the file this run made
          ELSE IF bg_pc' = "done" THEN SubSeq(bg_tmp, 1, Len(bg_tmp) - 1) ELSE bg_tmp
    /\ UNCHANGED <<bg_out, bg_ids>>
    /\ UNCHANGED <<now, jobVars, cbVars, dgVars, lateVars, rlVars, pqVars, wfVars>>

(***************************************************************************)
(* TRANSCRIPT NORMALISATION (backend/routes/deepgram_transcription.py)     *)
(* A JSON value of the vendor response is a record: its type t, its text   *)
(* s (a string), its number n (in thousandths), and for a list or a dict   *)
(* its elements e, a dict having the keys k of its elements alongside.     *)
(***************************************************************************)
JNull == [t |-> "null", s |-> "", n |-> 0, k |-> <<>>, e |-> <<>>]
JStr(s) == [t |-> "str", s |-> s, n |-> 0, k |-> <<>>, e |-> <<>>]
JNum(n) == [t |-> "num", s |-> "", n |-> n, k |-> <<>>, e |-> <<>>]
JList(e) == [t |-> "list", s |-> "", n |-> 0, k |-> <<>>, e |-> e]
JDict(k, e) == [t |-> "dict", s |-> "", n |-> 0, k |-> k, e |-> e]

\* truth value of a Python object: None, "", 0, [] and {} are false
bool(v) ==
    CASE v.t = "null" -> FALSE
      [] v.t = "str" -> v.s # ""
      [] v.t = "num" -> v.n # 0
      [] OTHER -> v.e # <<>>
\* d.get(key, default) on a dict d
get(d, key, default) ==
    IF \E i \in 1..Len(d.k) : d.k[i] = key
    THEN d.e[CHOOSE i \in 1..Len(d.k) : d.k[i] = key]
    ELSE default
\* what "not x.get(key) or len(x[key]) == 0" and x[key][0] raise for a truthy
\* x[key]: a number has no len(), a dict has no key 0; "" when they go through
FirstRaises(v) ==
    CASE v.t = "num" -> "TypeError"
      [] v.t = "dict" -> "KeyError"
      [] OTHER -> ""
\* v[0] of a non-empty list or string
First(v) == IF v.t = "list" THEN v.e[1] ELSE JStr("c")
\* the items a for loop over v visits: the elements of a list, the keys of a
\* dict and the characters of a string, both strings
Items(v) ==
    CASE v.t = "list" -> v.e
      [] v.t = "dict" -> [i \in 1..Len(v.k) |-> JStr(v.k[i])]
      [] OTHER -> <<JStr("c")>>

\* round(x, ndigits) of a number in thousandths: to hundredths for 2 digits
\* (half to even), unchanged for 3
round(x, ndigits) ==
    IF ndigits >= 3 THEN x
    ELSE LET q == x \div 10
             r == x % 10
         IN IF r > 5 \/ (r = 5 /\ q % 2 = 1) THEN (q + 1) * 10 ELSE q * 10

\* the WordTimestamp built from one entry of "words"
WordTimestamp(word_data) ==
    [word |-> get(word_data, "punctuated_word", get(word_data, "word", JStr(""))).s,
     start |-> round(get(word_data, "start", JNum(0)).n, 2),
     end |-> round(get(word_data, "end", JNum(0)).n, 2),
     confidence |-> round(get(word_data, "confidence", JNum(0)).n, 3),
     speaker |-> get(word_data, "speaker", JNull)]
\* the exception building it raises, "" when it is built: .get of a non-dict,
\* round() of a non-number, a word the model class refuses
WordRaises(word_data) ==
    IF word_data.t # "dict" THEN "AttributeError"
    ELSE IF \E f \in {"start", "end", "confidence"} :
                get(word_data, f, JNum(0)).t # "num"
    THEN "TypeError"
    ELSE IF get(word_data, "punctuated_word", get(word_data, "word", JStr(""))).t
               \notin {"str", "num"}
    THEN "ValidationError"
    ELSE ""

\* how the try block ends: with its return value, or with an exception and
\* the transcript assigned so far
Falls(transcript, words) == [exc |-> "", transcript |-> transcript, words |-> words]
Throws(exc, transcript) == [exc |-> exc, transcript |-> transcript, words |-> <<>>]

\* the for loop over alternative["words"]
ExtractWords(alternative, transcript) ==
    LET w == get(alternative, "words", JNull)
    IN IF ~bool(w) THEN Falls(transcript, <<>>)
       ELSE IF w.t = "num" THEN Throws("TypeError", transcript)
       ELSE LET items == Items(w)
                bad == {i \in 1..Len(items) : WordRaises(items[i]) # ""}
            IN IF bad # {}
               THEN Throws(WordRaises(items[CHOOSE i \in bad : \A j \in bad : i <= j]),
                           transcript)
               ELSE Falls(transcript, [i \in 1..Len(items) |-> WordTimestamp(items[i])])

\* channel["alternatives"][0] and below
ExtractAlternative(channel) ==
    IF channel.t # "dict" THEN Throws("AttributeError", JStr(""))
    ELSE LET alternatives == get(channel, "alternatives", JNull)
         IN IF ~bool(alternatives) THEN Falls(JStr(""), <<>>)
            ELSE IF FirstRaises(alternatives) # ""
            THEN Throws(FirstRaises(alternatives), JStr(""))
            ELSE LET alternative == First(alternatives)
                 IN IF alternative.t # "dict" THEN Throws("AttributeError", JStr(""))
                    ELSE ExtractWords(alternative,
                                      get(alternative, "transcript", JStr("")))

\* the body of the try block
TryExtract(deepgram_response) ==
    IF deepgram_response.t # "dict" THEN Throws("AttributeError", JStr(""))
    ELSE LET results == get(deepgram_response, "results", JNull)
         IN IF ~bool(results) THEN Falls(JStr(""), <<>>)
            ELSE IF results.t # "dict" THEN Throws("AttributeError", JStr(""))
            ELSE LET channels == get(results, "channels", JNull)
                 IN IF ~bool(channels) THEN Falls(JStr(""), <<>>)
                    ELSE IF FirstRaises(channels) # ""
                    THEN Throws(FirstRaises(channels), JStr(""))
                    ELSE ExtractAlternative(First(channels))

\* what the function gives its caller: the pair it returns, or an exception
Extracted(kind, transcript, words, error) ==
    [kind |-> kind, transcript |-> transcript, words |-> words, error |-> error]
NoExtract == Extracted("", JNull, <<>>, "")

\* except Exception as e: the classes the handler catches
Catches_KeyError(e) == e = "KeyError"
Catches(e) == e \in {"AttributeError", "TypeError", "KeyError", "ValidationError"}

extract_words_with_speakers(deepgram_response) ==
    LET b == TryExtract(deepgram_response)
    IN IF b.exc = "" THEN Extracted("returned", b.transcript, b.words, "")
       ELSE IF Catches(b.exc) THEN Extracted("returned", b.transcript, <<>>, b.exc)
       ELSE Extracted("raised", JNull, <<>>, b.exc)

\* ---- vendor responses, well-formed and not --------------------------------
GoodWord ==
    JDict(<<"word", "punctuated_word", "start", "end", "confidence", "speaker">>,
          <<JStr("hello"), JStr("Hello,"), JNum(125), JNum(1234), JNum(987), JNum(1)>>)
BareWord == JDict(<<"word">>, <<JStr("world")>>)
WordLists ==
    {JNull, JList(<<>>), JList(<<GoodWord>>), JList(<<GoodWord, BareWord>>),
     JList(<<GoodWord, JStr("world")>>),
     JList(<<JDict(<<"word", "start">>, <<JStr("hello"), JStr("0.12")>>)>>),
     JList(<<JDict(<<"word", "end">>, <<JStr("hello"), JNull>>)>>),
     JList(<<JDict(<<"word">>, <<JNull>>)>>),
     JStr("hello"), JNum(3), JDict(<<"0">>, <<GoodWord>>)}
TranscriptValues == {JStr("Hello, world"), JStr(""), JNull}
Alternatives ==
    {JDict(<<"transcript", "words">>, <<tr, w>>) : tr \in TranscriptValues, w \in WordLists}
      \cup {JDict(<<"words">>, <<w>>) : w \in WordLists}
      \cup {JDict(<<>>, <<>>), JNull, JStr("text"), JNum(1)}
AlternativeLists ==
    {JList(<<a>>) : a \in Alternatives}
      \cup {JNull, JList(<<>>), JStr("text"), JNum(2), JDict(<<"0">>, <<JNull>>)}
Channels ==
    {JDict(<<"alternatives">>, <<al>>) : al \in AlternativeLists}
      \cup {JDict(<<>>, <<>>), JNull, JStr("text")}
ChannelLists ==
    {JList(<<ch>>) : ch \in Channels}
      \cup {JList(<<ch, JNull>>) : ch \in Channels}
      \cup {JNull, JList(<<>>), JStr("text"), JNum(2), JDict(<<"0">>, <<JNull>>)}
Results ==
    {JDict(<<"channels">>, <<cl>>) : cl \in ChannelLists}
      \cup {JDict(<<>>, <<>>), JNull, JStr("text"), JList(<<JNull>>)}
Responses ==
    {JDict(<<"results">>, <<r>>) : r \in Results}
      \cup {JDict(<<"metadata">>, <<JNull>>), JDict(<<>>, <<>>), JNull,
            JList(<<JNull>>), JStr("Bad Gateway")}

\* a caller passes a response through the function
extract(response) ==
    /\ ex_in' = response
    /\ ex_out' = extract_words_with_speakers(response)
    /\ UNCHANGED <<now, jobVars, cbVars, dgVars, rlVars, pqVars, wfVars, bgVars, cmVars>>

(***************************************************************************)
(* CACHE MANAGER (backend/utils/connection_pool.py) on the in-memory       *)
(* client of backend/utils/redis_client_simple.py                          *)
(***************************************************************************)
MaxCacheCalls == 3

CacheCallers == {"k1", "k2"}
CacheKeyNames == {<<"u1">>, <<"u2">>}
CacheTypes == {<<"user_data">>}
\* the results callers compute: None, a dict, the number 0
PyValues == {"None", "{'title': 'ep'}", "0"}
\* what a backend operation does: it returns, or raises this
BackendOutcomes == {"ok", "ConnectionError"}

\* json.dumps(value, default=str) and json.loads(text)
dumps(value) ==
    CASE value = "None" -> "null"
      [] value = "0" -> "0"
      [] OTHER -> "{\"title\": \"ep\"}"
loads(text) ==
    CASE text = "null" -> "None"
      [] text = "0" -> "0"
      [] OTHER -> "{'title': 'ep'}"

\* f"cache:{cache_type}:{key}"
cache_key(cache_type, key) == <<"cache">> \o cache_type \o key

\* MockAsyncRedisClient.get and .setex on its _data dict; setex drops the time
mock_get(data, k) == IF k \in DOMAIN data THEN Some(data[k]) ELSE None
mock_setex(data, k, time, value) ==
    [x \in DOMAIN data \cup {k} |-> IF x = k THEN value ELSE data[x]]

\* self.cache_ttl.get(cache_type, 300)
cache_ttl(cache_type) ==
    CASE cache_type = <<"user_data">> -> 300
      [] cache_type = <<"workspace_data">> -> 600
      [] cache_type = <<"podcast_metadata">> -> 1800
      [] cache_type = <<"api_responses">> -> 3600
      [] cache_type = <<"system_config">> -> 7200
      [] OTHER -> 300

\* CacheManager.get: the value read, None for no entry and for any exception
CacheManager_get_Raises(data, key, cache_type, o) ==
    IF o # "ok" THEN "raise"
    ELSE LET cached_value == mock_get(data, cache_key(cache_type, key))
         IN IF cached_value # None /\ cached_value[1] # ""
            THEN loads(cached_value[1])
            ELSE "None"
CacheManager_get(data, key, cache_type, o) ==
    IF o # "ok" THEN "None"
    ELSE LET cached_value == mock_get(data, cache_key(cache_type, key))
         IN IF cached_value # None /\ cached_value[1] # ""
            THEN loads(cached_value[1])
            ELSE "None"

\* CacheManager.set: the store after it, and True or False
CacheManager_set(data, key, value, cache_type, o) ==
    IF o # "ok" THEN [data |-> data, returned |-> "False"]
    ELSE [data |-> mock_setex(data, cache_key(cache_type, key),
                              cache_ttl(cache_type), dumps(value)),
          returned |-> "True"]

NoContext == [key |-> <<>>, cache_type |-> <<>>, yielded |-> "", result |-> "None"]

\* async with cached_operation(key, cache_type) as x: up to the yield, which
\* hands the caller the cached value or a CacheContext
cached_operation(c, key, cache_type, o) ==
    /\ cm_pc[c] = "idle"
    /\ cm_calls < MaxCacheCalls
    /\ cm_calls' = cm_calls + 1
    /\ LET cached_result == CacheManager_get(cm_data, key, cache_type, o)
       IN IF cached_result = "raise"
          THEN /\ cm_pc' = [cm_pc EXCEPT ![c] = "raised"]
               /\ cm_ctx' = [cm_ctx EXCEPT ![c] =
                     [key |-> key, cache_type |-> cache_type, yielded |-> "",
                      result |-> "None"]]
          ELSE IF cached_result # "None"
          THEN /\ cm_pc' = [cm_pc EXCEPT ![c] = "hit"]
               /\ cm_ctx' = [cm_ctx EXCEPT ![c] =
                     [key |-> key, cache_type |-> cache_type,
                      yielded |-> cached_result, result |-> "None"]]
          ELSE /\ cm_pc' = [cm_pc EXCEPT ![c] = "miss"]
               /\ cm_ctx' = [cm_ctx EXCEPT ![c] =
                     [key |-> key, cache_type |-> cache_type,
                      yielded |-> "CacheContext", result |-> "None"]]
    /\ UNCHANGED <<cm_data, cm_computed>>
    /\ UNCHANGED <<now, jobVars, cbVars, dgVars, rlVars, pqVars, wfVars, bgVars, exVars>>

\* the caller computed result and awaits context.set_result(result)
set_result(c, result, o) ==
    /\ cm_pc[c] = "miss"
    /\ LET ctx == cm_ctx[c]
           s == CacheManager_set(cm_data, ctx.key, result, ctx.cache_type, o)
       IN /\ cm_ctx' = [cm_ctx EXCEPT ![c].result = result]
          /\ cm_data' = s.data
          /\ cm_computed' =
                [cm_computed EXCEPT ![cache_key(ctx.cache_type, ctx.key)] = @ + 1]
          /\ cm_pc' = [cm_pc EXCEPT ![c] =
                          IF s.returned = "raise" THEN "raised" ELSE "computed"]
    /\ UNCHANGED cm_calls
    /\ UNCHANGED <<now, jobVars, cbVars, dgVars, rlVars, pqVars, wfVars, bgVars, exVars>>

\* the caller leaves the async with block
cm_leave(c) ==
    /\ cm_pc[c] \in {"hit", "miss", "computed", "raised"}
    /\ cm_pc' = [cm_pc EXCEPT ![c] = "idle"]
    /\ cm_ctx' = [cm_ctx EXCEPT ![c] = NoContext]
    /\ UNCHANGED <<cm_data, cm_computed, cm_calls>>
    /\ UNCHANGED <<now, jobVars, cbVars, dgVars, rlVars, pqVars, wfVars, bgVars, exVars>>

\* the components before anything has used them
IdleJobs ==
    /\ jobs = <<>>
    /\ user_jobs = [u \in Users |-> <<>>]
    /\ used_ids = {}
    /\ ops = 0
    /\ ret = Returned("", "", "", "None")
IdleCB ==
    /\ service = ""
    /\ cb = deepgram_circuit
    /\ pc = [c \in Callers |-> "idle"]
    /\ found = [c \in Callers |-> ""]
    /\ attempt = [c \in Callers |-> 0]
    /\ consec = 0
    /\ cb_ret = CbRet("", FALSE)
IdleDG ==
    /\ dg_pc = "idle"
    /\ dg_attempt = 0
    /\ dg_history = <<>>
    /\ dg_result = ""
IdleRL ==
    /\ rl_kind = "redis"
    /\ rl_up = TRUE
    /\ rl_tier = "free_user"
    /\ rl_store = <<>>
    /\ rl_pc = [c \in RateCallers |-> "idle"]
    /\ rl_loc = [c \in RateCallers |-> IdleLoc]
    /\ rl_ret = NoResult
    /\ rl_admitted = <<>>
    /\ rl_ticks = 0
    /\ rl_calls = 0
IdlePQ ==
    /\ pq_store = [p \in Priorities |-> <<>>]
    /\ pq_data = <<>>
    /\ pq_ms = QueueStart
    /\ pq_ticks = 0
    /\ pq_ret = NoRequest
IdleWF ==
    /\ wf_pc = "idle"
    /\ wf_req = [file |-> NoFile, user_id |-> ""]
    /\ wf_steps = WorkflowStep
    /\ wf_info = NoInfo
    /\ wf_attempted = <<>>
    /\ wf_out = NoResponse
    /\ wf_tmp = {}
IdleBG ==
    /\ bg_pc = "idle"
    /\ bg_calls = <<>>
    /\ bg_out = NoUpload
    /\ bg_log = ""
    /\ bg_tmp = <<>>
    /\ bg_ids = <<>>
IdleEX ==
    /\ ex_in = JNull
    /\ ex_out = NoExtract
IdleCM ==
    /\ cm_data = <<>>
    /\ cm_pc = [c \in CacheCallers |-> "idle"]
    /\ cm_ctx = [c \in CacheCallers |-> NoContext]
    /\ cm_computed = [k \in {cache_key(t, n) : t \in CacheTypes, n \in CacheKeyNames} |-> 0]
    /\ cm_calls = 0
IdleLate == IdleEX /\ IdleCM
IdleNew == IdleRL /\ IdlePQ /\ IdleWF /\ IdleBG /\ IdleLate

InitJobs ==
    /\ IdleNew
    /\ now = StartTime
    /\ IdleJobs
    /\ IdleCB
    /\ IdleDG

NextJobs ==
    \/ \E u \in Users, j \in JobIds : create_job(u, j)
    \/ \E j \in JobIds, s \in JobStatus, a \in UpdateArgs :
          update_job_status(j, s, a[1], a[2], a[3], a[4])
    \/ \E j \in JobIds, st \in ProgressSteps, p \in {50} : update_job_progress(j, st, p)
    \/ \E j \in JobIds, u \in Users : cancel_job(j, u)
    \/ \E j \in JobIds, r \in ResultArgs : complete_job(j, r)
    \/ \E j \in JobIds, e \in ErrorArgs : fail_job(j, e)
    \/ \E h \in MaxAgeArgs : cleanup_old_jobs(h)
    \/ TickHour

SpecJobs == InitJobs /\ [][NextJobs]_vars

\* ---- the job tracker under every operation, each update with one choice
\* of its optional arguments -------------------------------------------------
NextSweep ==
    \/ \E u \in Users, j \in JobIds : create_job(u, j)
    \/ \E j \in JobIds, s \in JobStatus : update_job_status(j, s, None, None, None, None)
    \/ \E j \in JobIds : update_job_progress(j, TRANSCRIBING, 50)
    \/ \E j \in JobIds, u \in Users : cancel_job(j, u)
    \/ \E j \in JobIds : complete_job(j, Some("doc"))
    \/ \E j \in JobIds : fail_job(j, Some("boom"))
    \/ \E h \in MaxAgeArgs : cleanup_old_jobs(h)
    \/ TickHour

SpecSweep == InitJobs /\ [][NextSweep]_vars

\* a breaker used directly through call / call_async
InitCB ==
    /\ IdleNew
    /\ now = StartTime
    /\ IdleJobs
    /\ service = ""
    /\ cb \in {deepgram_circuit, firebase_circuit}
    /\ pc = [c \in Callers |-> "idle"]
    /\ found = [c \in Callers |-> ""]
    /\ attempt = [c \in Callers |-> 0]
    /\ consec = 0
    /\ cb_ret = CbRet("", FALSE)
    /\ IdleDG

NextCB ==
    \/ \E c \in Callers : call_enter(c)
    \/ \E c \in Callers, r \in FuncResults : call_return(c, r)
    \/ \E c \in Callers : call_async_enter(c)
    \/ \E c \in Callers, r \in FuncResults : call_async_return(c, r)
    \/ Tick

SpecCB == InitCB /\ [][NextCB]_vars

\* operations decorated with resilient_call(service_name)
InitResilient ==
    /\ IdleNew
    /\ now = StartTime
    /\ IdleJobs
    /\ service \in Services
    /\ cb = circuit_breaker(service)
    /\ pc = [c \in Callers |-> "idle"]
    /\ found = [c \in Callers |-> ""]
    /\ attempt = [c \in Callers |-> 0]
    /\ consec = 0
    /\ cb_ret = CbRet("", FALSE)
    /\ IdleDG

NextResilient ==
    \/ \E c \in Callers : resilient_enter(c)
    \/ \E c \in Callers, r \in FuncResults : resilient_attempt(c, r)
    \/ Tick

SpecResilient == InitResilient /\ [][NextResilient]_vars

\* one call of transcribe_with_deepgram_api
InitDeepgram ==
    /\ IdleNew
    /\ now = StartTime
    /\ IdleJobs
    /\ IdleCB
    /\ IdleDG

NextDeepgram ==
    \/ \E key \in {"set", "missing"}, file \in {"ok", "missing", "unreadable"} :
          transcribe_start(key, file)
    \/ \E o \in PostOutcomes : transcribe_attempt(o)

SpecDeepgram == InitDeepgram /\ [][NextDeepgram]_vars

\* ---- the limiter, its calls one after the other, on a store that works ----
InitTiers == {"free_user", "premium_user", "trial"}
\* counts the store can hold when the first call arrives: nothing, or one
\* below a ceiling
InitCounts(lim) ==
    {<<0, 0, 0>>,
     <<lim.requests_per_minute - 1, lim.requests_per_hour - 1, lim.requests_per_day - 1>>,
     <<0, lim.requests_per_hour - 1, lim.requests_per_hour - 1>>,
     <<0, 0, lim.requests_per_day - 1>>}
\* the time of the last admission behind such counts: now, the end of the
\* previous minute, or the end of the previous hour
LastAdmission(counts, t) ==
    IF counts[1] > 0 THEN t
    ELSE IF counts[2] > 0 THEN (t \div 60) * 60 - 1
    ELSE (t \div 3600) * 3600 - 1
\* the keys that admission left behind (each at least 1)
InitStore(user_id, endpoint, counts, t) ==
    LET t0 == LastAdmission(counts, t)
        ks == IF counts[3] > 0 THEN 1..3 ELSE {}
        Val(i) == IF counts[i] > 0 THEN counts[i] ELSE 1
    IN [k \in {RateKey(user_id, endpoint, Windows[i], t0) : i \in ks} |->
          LET i == CHOOSE j \in ks : RateKey(user_id, endpoint, Windows[j], t0) = k
          IN Entry(Val(i), t0 + WindowSeconds(Windows[i]))]
InitAdmitted(user_id, endpoint, counts, t) ==
    LET ks == {i \in 1..3 : counts[i] > 0}
    IN [b \in {Bucket(user_id, endpoint, Windows[i], t) : i \in ks} |->
          LET i == CHOOSE j \in ks : Bucket(user_id, endpoint, Windows[j], t) = b
          IN counts[i]]

InitLimiter(tiers) ==
    /\ now = RateStart
    /\ rl_tier \in tiers
    /\ \E u \in RateUsers, e \in Endpoints, cs \in InitCounts(limits(rl_tier)) :
          /\ rl_store = InitStore(u, e, cs, now)
          /\ rl_admitted = InitAdmitted(u, e, cs, now)
    /\ rl_pc = [c \in RateCallers |-> "idle"]
    /\ rl_loc = [c \in RateCallers |-> IdleLoc]
    /\ rl_ret = NoResult
    /\ rl_ticks = 0
    /\ rl_calls = 0
    /\ IdleJobs /\ IdleCB /\ IdleDG /\ IdlePQ /\ IdleWF /\ IdleBG /\ IdleLate

InitRateSeq ==
    /\ rl_kind = "redis"
    /\ rl_up = TRUE
    /\ InitLimiter(InitTiers)

NextRateSeq ==
    \/ \E c \in {"r1"}, u \in RateUsers, e \in Endpoints, w \in Weights :
          /\ \A x \in RateCallers : rl_pc[x] = "idle"
          /\ rl_begin(c, u, e, w)
    \/ \E c \in RateCallers : rl_get(c)
    \/ \E c \in RateCallers : rl_execute(c)
    \/ \E d \in RateSteps : RateTick(d)

SpecRateSeq == InitRateSeq /\ [][NextRateSeq]_vars

\* ---- the limiter under concurrent calls, on a store that works, within
\* one second ----------------------------------------------------------------
InitRate ==
    /\ rl_kind = "redis"
    /\ rl_up = TRUE
    /\ InitLimiter({"free_user"})

NextRate ==
    \/ \E c \in RateCallers, u \in RateUsers, e \in Endpoints, w \in Weights :
          rl_begin(c, u, e, w)
    \/ \E c \in RateCallers : rl_get(c)
    \/ \E c \in RateCallers : rl_execute(c)

SpecRate == InitRate /\ [][NextRate]_vars

\* ---- the limiter on a store that may fail: a redis server that comes and
\* goes, the mock client, or no client at all -------------------------------
StoreKinds == {"redis", "mock", "none"}
InitRateFail ==
    /\ rl_kind \in StoreKinds
    /\ rl_up \in BOOLEAN
    /\ rl_kind # "redis" => rl_up
    /\ InitLimiter({"free_user"})

NextRateFail ==
    \/ \E c \in {"r1"}, u \in RateUsers, e \in Endpoints, w \in Weights :
          /\ \A x \in RateCallers : rl_pc[x] = "idle"
          /\ rl_begin(c, u, e, w)
    \/ \E c \in RateCallers : rl_get(c)
    \/ \E c \in RateCallers : rl_execute(c)
    \/ \E d \in RateSteps : RateTick(d)
    \/ StoreFlip

SpecRateFail == InitRateFail /\ [][NextRateFail]_vars

\* ---- the limiter under concurrent calls of several users and endpoints ---
\* user ids come from the request ("alice:upload" is one a client can send),
\* endpoints are function names
FrameUsers == {<<"alice">>, <<"alice", "upload">>}
FrameEndpoints == {<<"upload">>, <<"seo">>}
\* the calls made: two users of one endpoint, one user of two endpoints
FrameCalls ==
    {<<u, e>> \in FrameUsers \X FrameEndpoints : u = <<"alice">> \/ e = <<"upload">>}
InitRateFrame ==
    /\ rl_kind = "redis"
    /\ rl_up = TRUE
    /\ now = RateStart
    /\ rl_tier = "free_user"
    /\ \E u \in {<<"alice">>}, e \in {<<"upload">>},
          cs \in {x \in InitCounts(limits(rl_tier)) : x[1] = 0 => x[3] = 0} :
          /\ rl_store = InitStore(u, e, cs, now)
          /\ rl_admitted = InitAdmitted(u, e, cs, now)
    /\ rl_pc = [c \in RateCallers |-> "idle"]
    /\ rl_loc = [c \in RateCallers |-> IdleLoc]
    /\ rl_ret = NoResult
    /\ rl_ticks = 0
    /\ rl_calls = 0
    /\ IdleJobs /\ IdleCB /\ IdleDG /\ IdlePQ /\ IdleWF /\ IdleBG /\ IdleLate

NextRateFrame ==
    \/ \E c \in RateCallers, ue \in FrameCalls, w \in Weights :
          rl_begin(c, ue[1], ue[2], w)
    \/ \E c \in RateCallers : rl_get(c)
    \/ \E c \in RateCallers : rl_execute(c)

SpecRateFrame == InitRateFrame /\ [][NextRateFrame]_vars

\* ---- the priority queue ---------------------------------------------------
InitQueue ==
    /\ now = StartTime
    /\ IdleJobs /\ IdleCB /\ IdleDG /\ IdleRL /\ IdlePQ /\ IdleWF /\ IdleBG /\ IdleLate

NextQueue ==
    \/ \E u \in QueueUsers, p \in Priorities : add_to_priority_queue(u, p)
    \/ \E p \in Priorities : process_priority_queue(p)
    \/ \E d \in QueueSteps : QueueTick(d)

SpecQueue == InitQueue /\ [][NextQueue]_vars

\* ---- the synchronous pipeline ---------------------------------------------
InitWorkflow ==
    /\ now = StartTime
    /\ IdleJobs /\ IdleCB /\ IdleDG /\ IdleRL /\ IdlePQ /\ IdleWF /\ IdleBG /\ IdleLate

NextWorkflow ==
    \/ \E f \in Files, u \in Users : wf_start(f, u)
    \/ \E o \in StageOutcomes : step_1_upload_to_storage(o)
    \/ \E o \in StageOutcomes : wf_seek(o)
    \/ \E o \in StageOutcomes, t \in Transcripts : step_2_transcribe_audio(o, t)
    \/ \E o \in StageOutcomes : step_3_generate_seo_content(o)
    \/ \E o \in StageOutcomes, d \in DocIds : step_4_save_to_firestore(o, d)
    \/ \E o \in StageOutcomes : wf_respond(o)

SpecWorkflow == InitWorkflow /\ [][NextWorkflow]_vars

\* ---- the background pipeline next to the job tracker ----------------------
InitBackground ==
    /\ now = StartTime
    /\ IdleJobs /\ IdleCB /\ IdleDG /\ IdleRL /\ IdlePQ /\ IdleWF /\ IdleBG /\ IdleLate

NextBackground ==
    \/ \E u \in Users, o \in StageOutcomes : quick_upload_and_process(u, o)
    \/ \E o \in StageOutcomes : process_workflow_background(o)
    \/ \E u \in Users, j \in JobIds : create_job(u, j)
    \/ \E j \in JobIds, u \in Users : cancel_job(j, u)

SpecBackground == InitBackground /\ [][NextBackground]_vars

\* ---- transcript normalisation of bounded vendor responses ------------------
InitExtract ==
    /\ now = StartTime
    /\ IdleJobs /\ IdleCB /\ IdleDG /\ IdleNew

NextExtract == \E response \in Responses : extract(response)

SpecExtract == InitExtract /\ [][NextExtract]_vars

\* ---- the cache manager with a backend that can fail -------------------------
InitCache ==
    /\ now = StartTime
    /\ IdleJobs /\ IdleCB /\ IdleDG /\ IdleNew

NextCache ==
    \/ \E c \in CacheCallers, key \in CacheKeyNames, t \in CacheTypes, o \in BackendOutcomes :
          cached_operation(c, key, t, o)
    \/ \E c \in CacheCallers, result \in PyValues, o \in BackendOutcomes :
          set_result(c, result, o)
    \/ \E c \in CacheCallers : cm_leave(c)

SpecCache == InitCache /\ [][NextCache]_vars

\* ---- the cache manager with a working backend and results other than None --
InitCacheRace ==
    /\ now = StartTime
    /\ IdleJobs /\ IdleCB /\ IdleDG /\ IdleNew

NextCacheRace ==
    \/ \E c \in CacheCallers, key \in CacheKeyNames, t \in CacheTypes :
          cached_operation(c, key, t, "ok")
    \/ \E c \in CacheCallers, result \in PyValues \ {"None"} :
          set_result(c, result, "ok")
    \/ \E c \in CacheCallers : cm_leave(c)

SpecCacheRace == InitCacheRace /\ [][NextCacheRace]_vars

(***************************************************************************)
(* Job tracker properties                                                  *)
(***************************************************************************)
\* jobs present before and after a step
Kept == DOMAIN jobs \cap DOMAIN jobs'

\* C1: once a job's status is completed, failed or cancelled, no later
\* tracker call changes its status.
C1_TerminalIsSticky ==
    [][\A j \in Kept :
         jobs[j].status \in TerminalStatus => jobs'[j].status = jobs[j].status]_vars

\* C2: in every reachable state a job whose status is completed has
\* progress 100 and current_step completed.
C2_CompletedMeansDone ==
    \A j \in DOMAIN jobs :
        jobs[j].status = COMPLETED =>
            jobs[j].progress = 100 /\ jobs[j].current_step = STEP_COMPLETED

\* C3: every change of a job's status follows one of the edges
\* queued->processing, processing->completed, processing->failed,
\* queued->cancelled, processing->cancelled.
StatusEdges ==
    { <<QUEUED, PROCESSING>>, <<PROCESSING, COMPLETED>>, <<PROCESSING, FAILED>>,
      <<QUEUED, CANCELLED>>, <<PROCESSING, CANCELLED>> }
C3_StatusFollowsEdges ==
    [][\A j \in Kept :
         jobs'[j].status # jobs[j].status =>
             <<jobs[j].status, jobs'[j].status>> \in StatusEdges]_vars

\* C4: cancel_job(job_id, user) by a user who is not the job's owner returns
\* false and leaves every field of that job, and every other job, unchanged,
\* whatever the job's status.
C4_ForeignCancelChangesNothing ==
    [][\A j \in DOMAIN jobs, u \in Users :
         (jobs[j].user_id # u /\ cancel_job(j, u)) =>
             /\ ret'.value = "False"
             /\ jobs' = jobs
             /\ user_jobs' = user_jobs]_vars
\* a foreign cancel has just been refused on a job that is still active
C4_Witness ==
    /\ ret.op = "cancel_job" /\ ret.value = "False"
    /\ ret.job_id \in DOMAIN jobs
    /\ jobs[ret.job_id].user_id # ret.user_id
    /\ jobs[ret.job_id].status = PROCESSING

(***************************************************************************)
(* Circuit breaker properties                                              *)
(***************************************************************************)
\* the recovery timeout has not elapsed since the last recorded failure
InRecoveryWindow ==
    /\ cb.last_failure_time # None
    /\ now - cb.last_failure_time[1] < cb.recovery_timeout

\* C5: after the breaker has recorded N consecutive failures (N = its
\* failure threshold), a call made before the recovery timeout has elapsed
\* fails immediately and the wrapped operation is not invoked.
C5_FailsFastAfterThreshold ==
    [][\A c \in Callers :
         ( /\ consec >= cb.failure_threshold
           /\ InRecoveryWindow
           /\ (call_enter(c) \/ call_async_enter(c)) ) =>
             /\ cb_ret'.result = "CircuitOpen"
             /\ ~cb_ret'.invoked
             /\ pc'[c] = "idle"
             /\ cb' = cb]_vars
\* a call has just been refused inside the recovery window, after the
\* threshold number of consecutive failures
C5_Witness ==
    /\ cb_ret.result = "CircuitOpen" /\ ~cb_ret.invoked
    /\ consec >= cb.failure_threshold
    /\ InRecoveryWindow

\* callers inside the wrapped operation that entered after the circuit opened
Trials == {c \in Callers : pc[c] = "awaiting" /\ found[c] \in {OPEN, HALF_OPEN}}

\* C6: when the recovery timeout of an open circuit has elapsed and several
\* callers invoke call_async, exactly one is let through as the half-open
\* trial; no other caller is inside the operation until the trial finished.
C6_SingleHalfOpenTrial == Cardinality(Trials) <= 1

\* C7: the breaker leaves open only for half-open, and only after the
\* recovery timeout has elapsed since the last failure; from half-open the
\* next success closes it with failure_count 0 and the next failure opens it
\* again with last_failure_time set to the time of that failure.
C7_BreakerTransitions ==
    [][ /\ (cb.state = OPEN /\ cb'.state # OPEN) =>
               (cb'.state = HALF_OPEN /\ should_attempt_reset(cb, now))
        /\ \A c \in Callers, r \in FuncResults :
             ( /\ cb.state = HALF_OPEN
               /\ (call_return(c, r) \/ call_async_return(c, r)) ) =>
                 /\ r = "ok" => (cb'.state = CLOSED /\ cb'.failure_count = 0)
                 /\ (r # "ok" /\ IsInstance(r, cb.expected_exception)) =>
                        (cb'.state = OPEN /\ cb'.last_failure_time = Some(now))
      ]_vars

(***************************************************************************)
(* resilient_call properties                                               *)
(***************************************************************************)
\* C8: when every retry attempt has failed with a retryable exception, or
\* the operation raised a non-retryable exception, the service's breaker
\* records one failure (failure_count incremented, last_failure_time set)
\* and the error is propagated; for deepgram, gemini and firebase alike.
C8_ExhaustedCallRecordsFailure ==
    [][\A c \in Callers, r \in ExceptionKinds :
         ( /\ resilient_attempt(c, r)
           /\ Retried(retry_config(service), attempt[c], r) # "retry" ) =>
             /\ cb'.failure_count = cb.failure_count + 1
             /\ cb'.last_failure_time = Some(now)
             /\ cb_ret'.result \notin {"ok", "retry", "pending"}]_vars

(***************************************************************************)
(* Transcription call properties                                           *)
(***************************************************************************)
\* the errors the specification calls retryable: connection failure,
\* timeout, server error status
RetryableFailures == {"ConnectError", "TimeoutException", "500", "503"}
\* the errors the specification calls non-retryable
NonRetryableResponses == {"400", "401", "403", "415"}

\* C9: a transcription call that fails with a retryable error (connection
\* failure, timeout, server error status) is attempted again, and the call
\* makes at most 3 attempts in total before the error is surfaced.
C9_RetryableIsRetried ==
    dg_pc = "done" =>
        /\ Len(dg_history) <= 3
        /\ \A i \in 1..Len(dg_history) :
             (dg_history[i] \in RetryableFailures /\ i < 3) =>
                 Len(dg_history) > i

\* C10: a response with a non-retryable error status (400, 401, 403, 415)
\* ends the call: no further attempt is made and the error is surfaced; when
\* it answers the first attempt the vendor is invoked exactly once.
C10_NonRetryableShortCircuits ==
    \A i \in 1..Len(dg_history) :
        dg_history[i] \in NonRetryableResponses =>
            /\ Len(dg_history) = i
            /\ dg_pc = "done"
            /\ dg_result = "HTTP500"
\* the call ended after a single 415 response
C10_Witness ==
    /\ dg_pc = "done"
    /\ dg_history = <<"415">>
    /\ dg_result = "HTTP500"

(***************************************************************************)
(* Rate limiter properties                                                 *)
(***************************************************************************)
\* the ceilings of a tier: minute, hour, day (an unknown tier gets the free ones)
TierCeilings(tier) ==
    CASE tier = "premium_user" -> <<20, 500, 2000>>
      [] tier = "enterprise_user" -> <<100, 2000, 10000>>
      [] tier = "admin" -> <<1000, 10000, 50000>>
      [] OTHER -> <<5, 50, 200>>
WindowNames == <<"minute", "hour", "day">>
WindowLength == <<60, 3600, 86400>>
\* the weight admitted so far in window i of the bucket of a call made by
\* user u on endpoint e at time t
AdmittedIn(u, e, i, t) ==
    LET b == <<u, e, WindowNames[i], t \div WindowLength[i]>>
    IN IF b \in DOMAIN rl_admitted THEN rl_admitted[b] ELSE 0
\* caller c returns from check_rate_limit in this step
Returns(c) == (rl_get(c) \/ rl_execute(c)) /\ rl_pc'[c] = "idle"

\* C11: with calls made one after the other on a working store, a call is
\* admitted only if, in its minute, hour and day bucket at once, the weight
\* already admitted plus its own weight is at most the tier ceiling; so the
\* weight admitted in a bucket never exceeds the bucket's ceiling.
C11_AdmittedWithinCeilings ==
    [][\A c \in RateCallers :
         (Returns(c) /\ rl_ret'.allowed = "True") =>
            \A i \in 1..3 :
               AdmittedIn(rl_loc[c].user_id, rl_loc[c].endpoint, i,
                          rl_loc[c].current_time) + rl_loc[c].request_weight
                  <= TierCeilings(rl_tier)[i]]_vars

\* C12: with concurrent calls for one user and endpoint, the weight admitted
\* in a minute, hour or day bucket stays at or below the tier ceiling in
\* every interleaving.
C12_ConcurrentWithinCeilings ==
    \A b \in DOMAIN rl_admitted :
        \A i \in 1..3 :
            b[3] = WindowNames[i] => rl_admitted[b] <= TierCeilings(rl_tier)[i]

\* the windows in which counts (one per window) leave no room for weight
Violated(counts, weight, tier) ==
    {i \in 1..3 : counts[i] + weight > TierCeilings(tier)[i]}

\* the weight admitted so far in the minute, hour and day bucket of a call
AdmittedBefore(r) ==
    [i \in 1..3 |-> AdmittedIn(r.user_id, r.endpoint, i, r.current_time)]

\* C13: a rejected call names a violated window in limit_type; the 6th unit
\* request of a free-tier minute bucket (any call for which the weight
\* admitted in its minute bucket leaves no room) is rejected with limit_type
\* minute, and a call that fits its minute and hour bucket but not its day
\* bucket is rejected with limit_type day.
C13_RejectionNamesWindow ==
    [][\A c \in RateCallers :
         (Returns(c) /\ rl_ret'.error = "") =>
            LET r == rl_ret'
                bad == Violated(AdmittedBefore(r), r.request_weight, rl_tier)
            IN /\ r.allowed = "False" =>
                     \E i \in bad : r.limit_type = WindowNames[i]
               /\ 1 \in bad => (r.allowed = "False" /\ r.limit_type = "minute")
               /\ bad = {3} => (r.allowed = "False" /\ r.limit_type = "day")]_vars

\* C14: a free-tier unit request made when 4 were admitted in its minute
\* bucket is admitted; one made when 5 were admitted in its minute bucket is
\* rejected with retry_after equal to the seconds left until the bucket
\* ends, between 1 and 60.
C14_FifthAdmittedSixthWaits ==
    [][\A c \in RateCallers :
         (Returns(c) /\ rl_ret'.error = "" /\ rl_tier = "free_user"
            /\ rl_ret'.request_weight = 1) =>
            LET r == rl_ret'
                adm == AdmittedBefore(r)
                bucket_end == ((r.current_time \div 60) + 1) * 60
            IN /\ (adm[1] = 4 /\ adm[2] < 50 /\ adm[3] < 200)
                     => r.allowed = "True"
               /\ adm[1] = 5 =>
                     /\ r.allowed = "False"
                     /\ r.limit_type = "minute"
                     /\ r.retry_after = bucket_end - r.current_time
                     /\ r.retry_after >= 1 /\ r.retry_after <= 60]_vars

\* C15: a call one of whose store operations fails (the server is away, there
\* is no client, or the client has no pipeline method) returns allowed = true.
C15_FailsOpen ==
    [][\A c \in RateCallers :
         (rl_get(c) \/ rl_execute(c)) =>
            /\ (rl_kind = "none" \/ (rl_kind = "redis" /\ ~rl_up)) =>
                  /\ rl_pc'[c] = "idle"
                  /\ rl_ret'.caller = c
                  /\ rl_ret'.allowed = "True"
                  /\ rl_ret'.error # ""
            /\ rl_kind = "mock" =>
                  /\ rl_pc'[c] # "execute"
                  /\ (rl_pc'[c] = "idle"
                        /\ Violated(rl_ret'.counts, rl_ret'.request_weight, rl_tier) = {})
                       => (rl_ret'.allowed = "True" /\ rl_ret'.error = "AttributeError")]_vars
\* a call on the client without pipeline has returned allowed = true
C15_Witness ==
    /\ rl_kind = "mock"
    /\ rl_ret.allowed = "True"
    /\ rl_ret.error = "AttributeError"
    /\ Len(rl_ret.counts) = 3

(***************************************************************************)
(* Priority queue property                                                 *)
(***************************************************************************)
\* C16: queued requests are replayed in priority order: whenever a request
\* is served, no request with a lower priority number is waiting.
C16_LowerNumberServedFirst ==
    [][\A p \in DOMAIN pq_store :
         (process_priority_queue(p) /\ pq_ret'.result = "dict") =>
            \A q \in DOMAIN pq_store : q < p => pq_store[q] = <<>>]_vars

(***************************************************************************)
(* Pipeline properties                                                     *)
(***************************************************************************)
StageOrder == <<"upload", "transcription", "seo_generation", "firestore_save">>
Flags(st) == <<st.upload, st.transcription, st.seo_generation, st.firestore_save>>

\* C17: the stages are called in the order upload, transcription,
\* seo_generation, firestore_save, each only after the one before it
\* succeeded; in every returned response the true flags of steps_completed
\* are a prefix of that order, and success is true only with all four true.
C17_StagesInOrder ==
    /\ Len(wf_attempted) <= 4
    /\ \A i \in 1..Len(wf_attempted) :
          /\ wf_attempted[i] = StageOrder[i]
          /\ i > 1 => Flags(wf_steps)[i - 1]
    /\ wf_out.kind = "returned" =>
          /\ \A i \in 1..3 :
                Flags(wf_out.steps_completed)[i + 1] => Flags(wf_out.steps_completed)[i]
          /\ wf_out.success = "True" =>
                \A i \in 1..4 : Flags(wf_out.steps_completed)[i]
\* a response was returned after the upload succeeded and nothing else
C17_Witness ==
    /\ wf_out.kind = "returned"
    /\ wf_out.success = "False"
    /\ Flags(wf_out.steps_completed) = <<TRUE, FALSE, FALSE, FALSE>>
    /\ wf_attempted = <<"upload">>

\* C18: when upload and transcription succeeded and content generation
\* throws, the handler returns a response with success false, the flags
\* upload and transcription true and the other two false, the error text,
\* and the transcription output.
C18_GenerationFailureReturnsPartial ==
    [][\A e \in {"TimeoutError", "ValueError"} :
         (wf_steps.upload /\ wf_steps.transcription
            /\ step_3_generate_seo_content(e)) =>
            /\ wf_out'.kind = "returned"
            /\ wf_out'.success = "False"
            /\ Flags(wf_out'.steps_completed) = <<TRUE, TRUE, FALSE, FALSE>>
            /\ wf_out'.error # <<>>
            /\ wf_out'.transcription_info = wf_info.transcription_info]_vars

\* C19: every accepted background submission has a job of its user in the
\* tracker, which is completed once the run went through all stages and
\* failed once a stage failed.
C19_SubmissionHasTrackedJob ==
    bg_out.success = "True" =>
        \E j \in DOMAIN jobs :
            /\ jobs[j].user_id = bg_out.user_id
            /\ bg_log = "completed" => jobs[j].status = "completed"
            /\ bg_log = "failed" => jobs[j].status = "failed"

\* C20: once the job of the submitting user is cancelled, the background run
\* starts no later stage: no transcription, generation or persistence call.
C20_NoStageAfterCancellation ==
    [][(/\ bg_out.success = "True"
        /\ \E j \in DOMAIN jobs :
              jobs[j].user_id = bg_out.user_id /\ jobs[j].status = "cancelled")
         => ~(/\ bg_pc \in {"transcribe", "generate", "save"}
              /\ Len(bg_calls') > Len(bg_calls))]_vars

(***************************************************************************)
(* Input validation property                                               *)
(***************************************************************************)
AudioMimeTypes ==
    {"audio/mpeg", "audio/mp4", "audio/wav", "audio/x-wav", "audio/mp3",
     "audio/m4a", "audio/flac", "audio/ogg"}
AudioSuffixes == {"mp3", "m4a", "wav", "mp4", "flac", "ogg"}
\* the file has a supported audio MIME type or a name ending in a supported
\* extension
SupportedFormat(file) ==
    \/ file.content_type \in AudioMimeTypes
    \/ \E x \in AudioSuffixes : file.filename = "ep." \o x

\* C21: a submission whose file has neither a supported audio MIME type nor a
\* supported extension is rejected with status 400, and no stage (upload or
\* later) is attempted for it.
C21_UnsupportedRejectedFirst ==
    /\ (wf_pc # "idle" /\ ~SupportedFormat(wf_req.file))
          => (wf_pc = "done" /\ wf_out.kind = "raised" /\ wf_out.status_code = 400)
    /\ wf_attempted # <<>> => SupportedFormat(wf_req.file)

(***************************************************************************)
(* Transcript normalisation property                                       *)
(***************************************************************************)
\* the response is a dict without results, or its results have no channel,
\* or its first channel has no alternative
NothingRecognised(r) ==
    /\ r.t = "dict"
    /\ LET res == get(r, "results", JNull)
       IN \/ res \in {JNull, JDict(<<>>, <<>>)}
          \/ /\ res.t = "dict"
             /\ LET chs == get(res, "channels", JNull)
                IN \/ chs \in {JNull, JList(<<>>)}
                   \/ /\ chs.t = "list" /\ chs.e # <<>> /\ chs.e[1].t = "dict"
                      /\ get(chs.e[1], "alternatives", JNull) \in {JNull, JList(<<>>)}

\* C22: transcript normalisation never raises; for a response with no
\* results, no channel or no alternative it returns the empty transcript and
\* the empty word list, and for every other response, malformed ones
\* included, it returns a value.
C22_NormalizationNeverRaises ==
    /\ ex_out.kind \in {"", "returned"}
    /\ (ex_out.kind = "returned" /\ NothingRecognised(ex_in)) =>
          (ex_out.transcript = JStr("") /\ ex_out.words = <<>> /\ ex_out.error = "")
\* a response whose word entries cannot be read was normalised to its
\* transcript and no words
C22_Witness ==
    /\ ex_out.kind = "returned"
    /\ ex_out.error = "TypeError"
    /\ ex_out.transcript = JStr("Hello, world")
    /\ ex_out.words = <<>>

(***************************************************************************)
(* Cache manager properties                                                *)
(***************************************************************************)
BackendErrors == {"ConnectionError"}

\* C23: a failure of the cache backend never fails the wrapped operation: a
\* failing read gives the caller a writable context as a miss does, and a
\* failing write in set_result is swallowed, the caller keeping the result it
\* computed.
C23_BackendFailureIsMiss ==
    [][\A c \in CacheCallers, e \in BackendErrors :
         /\ \A key \in CacheKeyNames, t \in CacheTypes :
               cached_operation(c, key, t, e) =>
                  /\ cm_pc'[c] = "miss"
                  /\ cm_ctx'[c].yielded = "CacheContext"
         /\ \A result \in PyValues :
               set_result(c, result, e) =>
                  /\ cm_pc'[c] = "computed"
                  /\ cm_ctx'[c].result = result
                  /\ cm_data' = cm_data]_vars
\* a caller holds the result it computed although nothing could be written
C23_Witness ==
    \E c \in CacheCallers :
        /\ cm_pc[c] = "computed"
        /\ cm_ctx[c].yielded = "CacheContext"
        /\ cm_ctx[c].result = "{'title': 'ep'}"
        /\ cm_data = <<>>

\* C24: for one cache key at most one result is computed and written: two
\* callers that enter cached_operation for the same key at the same time do
\* not both get a miss and both compute.
C24_OneComputationPerKey ==
    \A k \in DOMAIN cm_computed : cm_computed[k] <= 1

(***************************************************************************)
(* Job retention property                                                  *)
(***************************************************************************)
\* the ids in a user's job list
Listed(lists, u) == {lists[u][i] : i \in 1..Len(lists[u])}
\* the jobs older than hours hours
Expired(hours) == {j \in DOMAIN jobs : jobs[j].created_at < now - hours * 3600}

\* C25: only the cleanup sweep deletes jobs; cleanup_old_jobs(max_age_hours)
\* removes exactly the jobs created before now - max_age_hours hours whatever
\* their status, returns their number and drops them from their owner's
\* list; so each user's job list always holds exactly the ids of that user's
\* existing jobs, each once.
C25_OnlySweepDeletes ==
    [][/\ (DOMAIN jobs \ DOMAIN jobs' # {}) => \E h \in {0, 1, 24} : cleanup_old_jobs(h)
       /\ \A h \in {0, 1, 24} :
             cleanup_old_jobs(h) =>
                /\ DOMAIN jobs' = DOMAIN jobs \ Expired(h)
                /\ \A j \in DOMAIN jobs' : jobs'[j] = jobs[j]
                /\ ret'.value = ToString(Cardinality(Expired(h)))
       /\ \A u \in {"alice", "bob"} :
             /\ Listed(user_jobs', u) = {j \in DOMAIN jobs' : jobs'[j].user_id = u}
             /\ Cardinality(Listed(user_jobs', u)) = Len(user_jobs'[u])]_vars
\* a sweep removed one job and kept a newer one, which is alone in its owner's list
C25_Witness ==
    /\ ret.op = "cleanup_old_jobs"
    /\ ret.value = "1"
    /\ DOMAIN jobs # {}
    /\ \E j \in DOMAIN jobs : user_jobs[jobs[j].user_id] = <<j>>
    /\ used_ids = {"j1", "j2"}

(***************************************************************************)
(* Circuit breaker state properties                                        *)
(***************************************************************************)
\* C26: in every reachable state of a breaker, interleaved call_async calls
\* included, the state is closed exactly when failure_count is below
\* failure_threshold, and open or half-open only when failure_count is at
\* least failure_threshold and last_failure_time is set.
C26_StateMatchesCount ==
    /\ (cb.state = "closed") <=> (cb.failure_count < cb.failure_threshold)
    /\ cb.state \in {"open", "half_open"} =>
          /\ cb.failure_count >= cb.failure_threshold
          /\ cb.last_failure_time # <<>>
\* the breaker is half-open with two call_async calls in flight
C26_Witness ==
    /\ cb.state = "half_open"
    /\ cb.failure_count >= cb.failure_threshold
    /\ Cardinality({c \in Callers : pc[c] = "awaiting"}) >= 2

\* C27: a call admitted while the breaker was open (the trial that makes it
\* half-open) or half-open leaves the breaker closed or open when it
\* returns, whatever the operation raised.
C27_TrialLeavesHalfOpen ==
    [][\A c \in Callers, r \in {"ok", "HTTPError", "ConnectionError", "TimeoutError", "ValueError"} :
         ((call_return(c, r) \/ call_async_return(c, r))
            /\ found[c] \in {"open", "half_open"})
           => cb'.state \in {"closed", "open"}]_vars

\* ---- C28 -----------------------------------------------------------------
\* the count a store holds under a key: 0 for a missing or expired key
CounterAt(st, key, t) ==
    IF key \in DOMAIN st /\ (st[key].expires_at = -1 \/ st[key].expires_at > t)
    THEN st[key].value ELSE 0
\* the three counters of a call: "rate_limit:<user>:<endpoint>:<window>:<n>"
CountersOf(l) ==
    {<<"rate_limit">> \o l.user_id \o l.endpoint \o <<"minute", ToString(l.current_time \div 60)>>,
     <<"rate_limit">> \o l.user_id \o l.endpoint \o <<"hour", ToString(l.current_time \div 3600)>>,
     <<"rate_limit">> \o l.user_id \o l.endpoint \o <<"day", ToString(l.current_time \div 86400)>>}
\* the keys of a store that count for a user and an endpoint
CountersFor(st, u, e) ==
    {k \in DOMAIN st :
        /\ Len(k) = Len(u) + Len(e) + 3
        /\ SubSeq(k, 1, Len(u) + Len(e) + 1) = <<"rate_limit">> \o u \o e}
\* C28: a check_rate_limit call that is rejected leaves the minute, hour and
\* day counters of its user and endpoint unchanged; an admitted call raises
\* each of its three counters by exactly its request weight and changes no
\* counter of any other user or endpoint.
C28_FrameOfCheck ==
    [][\A c \in RateCallers :
          Returns(c) =>
            LET l == rl_loc[c]
            IN /\ rl_ret'.allowed = "False" =>
                    \A k \in CountersOf(l) :
                       CounterAt(rl_store', k, now) = CounterAt(rl_store, k, now)
               /\ (rl_ret'.allowed = "True" /\ rl_ret'.error = "") =>
                    /\ \A k \in CountersOf(l) :
                          CounterAt(rl_store', k, now)
                             = CounterAt(rl_store, k, now) + l.request_weight
                    /\ \A u \in FrameUsers, e \in FrameEndpoints :
                          <<u, e>> # <<l.user_id, l.endpoint>> =>
                             \A k \in CountersFor(rl_store, u, e) \cup CountersFor(rl_store', u, e) :
                                CounterAt(rl_store', k, now) = CounterAt(rl_store, k, now)]_vars
\* a call was rejected while the store counts for two users or endpoints, one
\* of them admitted in this behaviour
C28_Witness ==
    /\ rl_ret.allowed = "False"
    /\ \E u1, u2 \in FrameUsers, e1, e2 \in FrameEndpoints :
          /\ <<u1, e1>> # <<u2, e2>>
          /\ CountersFor(rl_store, u1, e1) # {}
          /\ CountersFor(rl_store, u2, e2) # {}

\* ---- C29 -----------------------------------------------------------------
\* C29: every temporary file made by the background run or by the
\* synchronous transcription stage is deleted on every exit path, also when
\* the download of the uploaded file or the read of the request body raises
\* before transcription starts: once neither pipeline is running, no
\* temporary file of either is on disk.
C29_TempFilesDeleted ==
    /\ wf_pc \in {"idle", "done"} => wf_tmp = {}
    /\ bg_pc \in {"idle", "done"} => bg_tmp = <<>>

\* ---- C30 -----------------------------------------------------------------
\* C30: any two accepted quick-upload submissions receive distinct upload
\* identifiers, also two submissions by the same user within the same clock
\* second.
C30_DistinctUploadIds ==
    \A i, j \in 1..Len(bg_ids) : i # j => bg_ids[i] # bg_ids[j]

====
